---- MODULE Spec2Model ----
(***************************************************************************)
(* Order validation, audit logging and checkout of the Caarl storefront.   *)
(*                                                                         *)
(* Text whose characters the code inspects (trim, regular expressions,     *)
(* masking) is a sequence of one-character strings; labels the code only   *)
(* compares (codes, field names, delivery methods, ids) are strings.       *)
(* Money is an integer number of cents.                                    *)
(***************************************************************************)
EXTENDS Integers, Sequences, FiniteSets, TLC

VARIABLES
    orderData,            \* the draft handed to the validators
    ran,                  \* which validator entry point has run on the draft
    clientResult,         \* result of validateOrderClient (order-validation-client)
    dbValidation,         \* result of validateDatabaseConstraints inside validateOrder
    businessValidation,   \* result of validateBusinessRules (order-validation) inside validateOrder
    orderResult,          \* result of validateOrder
    remoteCalls,          \* remote calls validateOrder made, in order
    env,                  \* the remote side during the run: session user and injected fault
    loggerCalls,          \* calls made to the methods of orderAuditLogger, in order
    auditLogs,            \* the rows of order_audit_logs
    alerts,               \* what sendCriticalAlert reported
    loggerOutcome,        \* how the promise of the last logger call settled
    lastAttempt,          \* the last UPDATE or DELETE tried on order_audit_logs
    form,                 \* props and state of the checkout form the page rendered
    orders,               \* the rows of orders
    orderItems,           \* the rows of order_items
    cartRows,             \* the rows of cart_items of the session user
    guestCart,            \* the guest cart kept in localStorage
    checkoutRuns,         \* what each handleCheckout run validated and inserted
    argument,             \* the function called on its own, or called last, and its arguments
    returned              \* what that call returned or threw

validateVars == <<orderData, ran, clientResult, dbValidation, businessValidation,
                  orderResult, remoteCalls, env>>

auditVars == <<loggerCalls, auditLogs, alerts, loggerOutcome, lastAttempt>>

checkoutVars == <<form, orders, orderItems, cartRows, guestCart, checkoutRuns>>

applyVars == <<argument, returned>>

vars == <<validateVars, auditVars, checkoutVars, applyVars>>

NoResult == [none |-> TRUE]
NoUser == "no-user"
NoFault == [at |-> 0, mode |-> "none"]

(***************************************************************************)
(* Text helpers                                                            *)
(***************************************************************************)
WhiteSpace == {" "}

RECURSIVE TrimStart(_)
TrimStart(s) ==
    IF Len(s) > 0 /\ Head(s) \in WhiteSpace THEN TrimStart(Tail(s)) ELSE s

RECURSIVE TrimEnd(_)
TrimEnd(s) ==
    IF Len(s) > 0 /\ s[Len(s)] \in WhiteSpace
    THEN TrimEnd(SubSeq(s, 1, Len(s) - 1))
    ELSE s

\* String.prototype.trim
trim(s) == TrimEnd(TrimStart(s))

\* !value?.trim()
IsBlank(s) == Len(trim(s)) = 0

\* !value?.trim() of an id label: the ids of the model are "", " " or non-blank
IsBlankLabel(s) == s \in {"", " "}

\* [^\s@]
NotSpaceNotAt(c) == c \notin WhiteSpace /\ c # "@"

\* \S
NotSpace(c) == c \notin WhiteSpace

\* /^[^\s@]+@[^\s@]+\.[^\s@]+$/.test(s)
ClientEmailPattern(s) ==
    \E i \in 1..Len(s) : \E j \in 1..Len(s) :
        /\ s[i] = "@"
        /\ s[j] = "."
        /\ i >= 2
        /\ j >= i + 2
        /\ j <= Len(s) - 1
        /\ \A k \in 1..Len(s) : k # i => NotSpaceNotAt(s[k])

\* /\S+@\S+\.\S+/.test(s)
ServerEmailPattern(s) ==
    \E i \in 1..Len(s) : \E j \in 1..Len(s) :
        /\ s[i] = "@"
        /\ s[j] = "."
        /\ i >= 2
        /\ j >= i + 2
        /\ j <= Len(s) - 1
        /\ NotSpace(s[i - 1])
        /\ \A k \in (i + 1)..(j - 1) : NotSpace(s[k])
        /\ NotSpace(s[j + 1])

\* Two decimal digits of a cent amount
TwoDigits(n) == IF n < 10 THEN "0" \o ToString(n) ELSE ToString(n)

\* Number.prototype.toFixed(2) of an amount held in cents
toFixed2(c) ==
    IF c < 0
    THEN "-" \o ToString((-c) \div 100) \o "." \o TwoDigits((-c) % 100)
    ELSE ToString(c \div 100) \o "." \o TwoDigits(c % 100)

\* Template-literal rendering `${amount}` of an amount held in cents
NumberText(c) ==
    LET a == IF c < 0 THEN -c ELSE c
        sign == IF c < 0 THEN "-" ELSE ""
        whole == ToString(a \div 100)
        frac == a % 100
    IN  IF frac = 0 THEN sign \o whole
        ELSE IF frac % 10 = 0 THEN sign \o whole \o "." \o ToString(frac \div 10)
        ELSE sign \o whole \o "." \o TwoDigits(frac)

Abs(n) == IF n < 0 THEN -n ELSE n

(***************************************************************************)
(* Validation error model                                                  *)
(***************************************************************************)
Err(field, message, code) ==
    [field |-> field, message |-> message, code |-> code, severity |-> "error"]

Warn(field, message, code) ==
    [field |-> field, message |-> message, code |-> code, severity |-> "warning"]

Codes(errs) == {errs[i].code : i \in 1..Len(errs)}

HasCode(errs, code) == code \in Codes(errs)

HasError(errs, code, field) ==
    \E i \in 1..Len(errs) : errs[i].code = code /\ errs[i].field = field

\* Number of entries of a list equal to e
Count(errs, e) == Cardinality({i \in 1..Len(errs) : errs[i] = e})

IsGuest(o) == "customerInfo" \in DOMAIN o

IsAuth(o) == "userId" \in DOMAIN o

(***************************************************************************)
(* order-validation-client: validateBusinessRules                          *)
(***************************************************************************)
RECURSIVE ClientQuantityErrors(_, _)
ClientQuantityErrors(items, index) ==
    IF index > Len(items) THEN <<>>
    ELSE (IF items[index].quantity <= 0
          THEN <<Err("cartItems[" \o ToString(index - 1) \o "].quantity",
                     "Quantity must be greater than 0", "INVALID_QUANTITY")>>
          ELSE <<>>)
         \o ClientQuantityErrors(items, index + 1)

RECURSIVE ClientQuantityWarnings(_, _)
ClientQuantityWarnings(items, index) ==
    IF index > Len(items) THEN <<>>
    ELSE (IF items[index].quantity > 10
          THEN <<Warn("cartItems[" \o ToString(index - 1) \o "].quantity",
                      "Large quantity order - please verify", "LARGE_QUANTITY")>>
          ELSE <<>>)
         \o ClientQuantityWarnings(items, index + 1)

ClientGuestErrors(o) ==
    (IF IsBlank(o.customerInfo.full_name)
     THEN <<Err("customerInfo.full_name", "Full name is required", "MISSING_NAME")>>
     ELSE <<>>)
    \o (IF IsBlank(o.customerInfo.email)
        THEN <<Err("customerInfo.email", "Email is required", "MISSING_EMAIL")>>
        ELSE IF ~ClientEmailPattern(o.customerInfo.email)
        THEN <<Err("customerInfo.email", "Invalid email format", "INVALID_EMAIL")>>
        ELSE <<>>)
    \o (IF IsBlank(o.customerInfo.phone)
        THEN <<Err("customerInfo.phone", "Phone number is required", "MISSING_PHONE")>>
        ELSE <<>>)
    \o (IF IsBlank(o.address.street_address)
        THEN <<Err("address.street_address", "Street address is required", "MISSING_ADDRESS")>>
        ELSE <<>>)
    \o (IF IsBlank(o.address.city)
        THEN <<Err("address.city", "City is required", "MISSING_CITY")>>
        ELSE <<>>)
    \o (IF IsBlank(o.address.province)
        THEN <<Err("address.province", "Province is required", "MISSING_PROVINCE")>>
        ELSE <<>>)
    \o (IF IsBlank(o.address.postal_code)
        THEN <<Err("address.postal_code", "Postal code is required", "MISSING_POSTAL_CODE")>>
        ELSE <<>>)

ClientAuthErrors(o) ==
    (IF IsBlankLabel(o.userId)
     THEN <<Err("userId", "User ID is required", "MISSING_USER_ID")>>
     ELSE <<>>)
    \o (IF IsBlankLabel(o.addressId)
        THEN <<Err("addressId", "Address ID is required", "MISSING_ADDRESS_ID")>>
        ELSE <<>>)

ClientErrors(o) ==
    (IF Len(o.cartItems) = 0
     THEN <<Err("cartItems", "Cart cannot be empty", "EMPTY_CART")>>
     ELSE <<>>)
    \o ClientQuantityErrors(o.cartItems, 1)
    \o (IF o.total <= 0
        THEN <<Err("total", "Order total must be greater than 0", "INVALID_TOTAL")>>
        ELSE <<>>)
    \o (IF o.deliveryMethod = ""
        THEN <<Err("deliveryMethod", "Delivery method is required", "MISSING_DELIVERY_METHOD")>>
        ELSE <<>>)
    \o (IF IsGuest(o) THEN ClientGuestErrors(o) ELSE <<>>)
    \o (IF IsAuth(o) THEN ClientAuthErrors(o) ELSE <<>>)

\* Mutant of ClientIsValid: a warning makes the draft invalid as well
ClientIsValidCountingWarnings(errors, warnings) == Len(errors) = 0 /\ Len(warnings) = 0

ClientIsValid(errors, warnings) == Len(errors) = 0

\* validateBusinessRules of order-validation-client
ClientValidateBusinessRules(o) ==
    LET errors == ClientErrors(o)
        warnings == ClientQuantityWarnings(o.cartItems, 1)
    IN  [isValid |-> ClientIsValid(errors, warnings), errors |-> errors, warnings |-> warnings]

\* validateOrderClient
validateOrderClient(o) == ClientValidateBusinessRules(o)

(***************************************************************************)
(* The remote side: products, addresses, discount codes                    *)
(***************************************************************************)
\* A nullable column is a sequence: <<>> is null, <<v>> is the value v.
Products ==
    [id \in {"prod-1", "prod-2", "prod-3"} |->
        CASE id = "prod-1" -> [name |-> "Dress", price |-> 29999,
                               is_available |-> TRUE, stock_quantity |-> <<5>>]
          [] id = "prod-2" -> [name |-> "Coat", price |-> 49999,
                               is_available |-> FALSE, stock_quantity |-> <<0>>]
          [] id = "prod-3" -> [name |-> "Scarf", price |-> 1500000,
                               is_available |-> TRUE, stock_quantity |-> <<>>]]

\* addresses rows: id -> user_id
Addresses ==
    [id \in {"addr-456", "addr-777"} |->
        IF id = "addr-456" THEN "user-123" ELSE "user-999"]

\* What the validate_discount_code routine answers for a code
DiscountAnswer(code, userId, orderTotal) ==
    IF code = "SAVE10"
    THEN [valid |-> TRUE, error |-> ""]
    ELSE [valid |-> FALSE, error |-> "Discount code not found"]

\* How the k-th remote call of a run ends: "ok", "error" (an error object is
\* returned) or "raise" (the call throws)
CallMode(e, k) == IF e.fault.at = k THEN e.fault.mode ELSE "ok"

(***************************************************************************)
(* order-validation: validateDatabaseConstraints                           *)
(* A run is folded over a record st: the errors and warnings pushed so     *)
(* far, the remote calls made, and whether an exception is propagating to  *)
(* the catch block.                                                        *)
(***************************************************************************)
validDeliveryMethods == {"standard", "express", "collection"}

\* errors.push(e); pushedAfter records how many remote calls had been made
Push(st, e) ==
    [st EXCEPT !.errors = Append(@, e), !.pushedAfter = Append(@, Len(st.calls))]

PushWarning(st, w) == [st EXCEPT !.warnings = Append(@, w)]

\* if (cond) errors.push(e)
PushIf(st, cond, e) == IF cond THEN Push(st, e) ELSE st

\* if (cond) warnings.push(w)
PushWarningIf(st, cond, w) == IF cond THEN PushWarning(st, w) ELSE st

Called(st, c) == [st EXCEPT !.calls = Append(@, c)]

Raise(st) == [st EXCEPT !.raised = TRUE]

DbDeliveryMethod(o, st) ==
    IF o.deliveryMethod \notin validDeliveryMethods
    THEN Push(st, Err("deliveryMethod",
                      "Invalid delivery method. Must be one of: standard, express, collection",
                      "INVALID_DELIVERY_METHOD"))
    ELSE st

\* The checks on one cart item once its product row was fetched
ProductUnavailable(item, product, st) ==
    PushIf(st, ~product.is_available,
           Err("cartItems", "Product \"" \o product.name \o "\" is not available",
               "PRODUCT_UNAVAILABLE"))

InsufficientStock(item, product, st) ==
    PushIf(st, Len(product.stock_quantity) > 0 /\ product.stock_quantity[1] < item.quantity,
           Err("cartItems",
               "Insufficient stock for \"" \o product.name
                   \o "\". Available: "
                   \o (IF Len(product.stock_quantity) > 0
                       THEN ToString(product.stock_quantity[1]) ELSE "")
                   \o ", Requested: " \o ToString(item.quantity),
               "INSUFFICIENT_STOCK"))

PriceChanged(item, product, st) ==
    PushWarningIf(st, Abs(product.price - item.price) > 1,
                  Warn("cartItems",
                       "Price for \"" \o product.name \o "\" has changed. Current: R"
                           \o NumberText(product.price) \o ", Cart: R"
                           \o NumberText(item.price),
                       "PRICE_CHANGED"))

InvalidQuantity(item, product, st) ==
    PushIf(st, item.quantity <= 0,
           Err("cartItems",
               "Invalid quantity for \"" \o product.name \o "\". Must be greater than 0",
               "INVALID_QUANTITY"))

DbProductChecks(item, product, st) ==
    InvalidQuantity(item, product,
        PriceChanged(item, product,
            InsufficientStock(item, product,
                ProductUnavailable(item, product, st))))

\* Mutant of ProductNotFound: a missing product ends the run
ProductNotFoundStops(item, st) ==
    Raise(Push(st, Err("cartItems", "Product with ID " \o item.product_id \o " not found",
                       "PRODUCT_NOT_FOUND")))

ProductNotFound(item, st) ==
    Push(st, Err("cartItems", "Product with ID " \o item.product_id \o " not found",
                 "PRODUCT_NOT_FOUND"))

\* One iteration of the for..of loop: the lookup, then `continue` or the checks
DbItem(item, e, st) ==
    LET k == Len(st.calls) + 1
        asked == Called(st, [op |-> "products", args |-> <<item.product_id>>])
    IN  CASE CallMode(e, k) = "raise" -> Raise(asked)
          [] CallMode(e, k) = "error" -> ProductNotFound(item, asked)
          [] OTHER ->
                IF item.product_id \in DOMAIN Products
                THEN DbProductChecks(item, Products[item.product_id], asked)
                ELSE ProductNotFound(item, asked)

RECURSIVE DbItems(_, _, _, _)
DbItems(items, index, e, st) ==
    IF st.raised \/ index > Len(items) THEN st
    ELSE DbItems(items, index + 1, e, DbItem(items[index], e, st))

DbCart(o, e, st) ==
    IF Len(o.cartItems) = 0
    THEN Push(st, Err("cartItems", "Order must contain at least one item", "EMPTY_CART"))
    ELSE DbItems(o.cartItems, 1, e, st)

GuestName(o, st) ==
    PushIf(st, IsBlank(o.customerInfo.full_name),
           Err("customerInfo.full_name", "Full name is required for guest orders",
               "GUEST_NAME_REQUIRED"))

GuestEmail(o, st) ==
    IF IsBlank(o.customerInfo.email)
    THEN Push(st, Err("customerInfo.email", "Email is required for guest orders",
                      "GUEST_EMAIL_REQUIRED"))
    ELSE PushIf(st, ~ServerEmailPattern(o.customerInfo.email),
                Err("customerInfo.email", "Please enter a valid email address",
                    "INVALID_EMAIL_FORMAT"))

GuestStreet(o, st) ==
    PushIf(st, IsBlank(o.address.street_address),
           Err("address.street_address", "Street address is required", "ADDRESS_REQUIRED"))

GuestCity(o, st) ==
    PushIf(st, IsBlank(o.address.city),
           Err("address.city", "City is required", "CITY_REQUIRED"))

GuestProvince(o, st) ==
    PushIf(st, IsBlank(o.address.province),
           Err("address.province", "Province is required", "PROVINCE_REQUIRED"))

GuestPostalCode(o, st) ==
    PushIf(st, IsBlank(o.address.postal_code),
           Err("address.postal_code", "Postal code is required", "POSTAL_CODE_REQUIRED"))

DbGuest(o, st) ==
    GuestPostalCode(o, GuestProvince(o, GuestCity(o, GuestStreet(o,
        GuestEmail(o, GuestName(o, st))))))

\* supabase.auth.getUser(), then the identity comparison
DbUser(o, e, st) ==
    LET k == Len(st.calls) + 1
        asked == Called(st, [op |-> "auth.getUser", args |-> <<>>])
        invalid == Push(asked, Err("userId", "Invalid user authentication", "INVALID_USER"))
    IN  CASE CallMode(e, k) = "raise" -> Raise(asked)
          [] CallMode(e, k) = "error" -> invalid
          [] OTHER -> IF e.sessionUser = NoUser \/ e.sessionUser # o.userId
                      THEN invalid
                      ELSE asked

\* addresses lookup filtered by id and user_id
DbAddress(o, e, st) ==
    LET k == Len(st.calls) + 1
        asked == Called(st, [op |-> "addresses", args |-> <<o.addressId, o.userId>>])
        invalid == Push(asked, Err("addressId", "Invalid delivery address", "INVALID_ADDRESS"))
    IN  CASE CallMode(e, k) = "raise" -> Raise(asked)
          [] CallMode(e, k) = "error" -> invalid
          [] OTHER -> IF o.addressId \in DOMAIN Addresses /\ Addresses[o.addressId] = o.userId
                      THEN asked
                      ELSE invalid

\* The address lookup runs unless getUser threw
DbAddressStep(o, e, st) == IF st.raised THEN st ELSE DbAddress(o, e, st)

DbAuth(o, e, st) == DbAddressStep(o, e, DbUser(o, e, st))

HasDiscountCode(o) == "discountCode" \in DOMAIN o /\ o.discountCode # ""

\* Mutant of validateDiscountCode: a failed call counts as a valid code
validateDiscountCodeTrustsFailure(code, userId, orderTotal, mode) ==
    IF mode = "ok"
    THEN [isValid |-> DiscountAnswer(code, userId, orderTotal).valid,
          error |-> DiscountAnswer(code, userId, orderTotal).error]
    ELSE [isValid |-> TRUE, error |-> ""]

\* validateDiscountCode: the rpc call inside its own try/catch
validateDiscountCode(code, userId, orderTotal, mode) ==
    CASE mode = "raise" -> [isValid |-> FALSE, error |-> "Failed to validate discount code"]
      [] mode = "error" -> [isValid |-> FALSE, error |-> "Failed to validate discount code"]
      [] OTHER ->
            LET data == DiscountAnswer(code, userId, orderTotal)
            IN  [isValid |-> data.valid, error |-> data.error]

DbDiscount(o, e, st) ==
    IF ~HasDiscountCode(o) THEN st
    ELSE
        LET k == Len(st.calls) + 1
            userId == IF IsAuth(o) THEN o.userId ELSE "null"
            asked == Called(st, [op |-> "rpc.validate_discount_code",
                                 args |-> <<o.discountCode, userId, ToString(o.subtotal)>>])
            discountValidation ==
                validateDiscountCode(o.discountCode, userId, o.subtotal, CallMode(e, k))
        IN  IF ~discountValidation.isValid
            THEN Push(asked, Err("discountCode",
                                 IF discountValidation.error # ""
                                 THEN discountValidation.error
                                 ELSE "Invalid discount code",
                                 "INVALID_DISCOUNT"))
            ELSE asked

\* orderData.discountAmount || 0
DiscountAmountOrZero(o) == IF "discountAmount" \in DOMAIN o THEN o.discountAmount ELSE 0

expectedTotal(o) == o.subtotal + o.deliveryFee - DiscountAmountOrZero(o)

\* Math.abs(orderData.total - expectedTotal) > 0.01, evaluated in binary64 on
\* amounts that are whole cents: a difference of two cents or more exceeds 0.01,
\* equal amounts do not, and a difference of exactly one cent exceeds it or not
\* with the rounding of the operands. OneCentAbove holds the one-cent cases of
\* the model, <<total, subtotal, deliveryFee, discountAmount>>, for which the
\* binary64 difference comes out above 0.01:
\*   100.00 - (0.99 + 99 - 0) = 0.010000000000005116
\*     1.01 - (1.00 +  0 - 0) = 0.010000000000000009
\* and the others come out at or below it:
\*   199.01 - (100 + 99 - 0)  = 0.009999999999990905
\*     0.02 - (0.01 + 0 - 0)  = 0.01
OneCentAbove == {<<10000, 99, 9900, 0>>, <<101, 100, 0, 0>>}

OneCentNotAbove == {<<19901, 10000, 9900, 0>>, <<2, 1, 0, 0>>}

TotalMismatch(o) ==
    LET d == Abs(o.total - expectedTotal(o))
    IN  \/ d > 1
        \/ /\ d = 1
           /\ <<o.total, o.subtotal, o.deliveryFee, DiscountAmountOrZero(o)>> \in OneCentAbove

InvalidTotal(o, st) ==
    PushIf(st, o.total <= 0,
           Err("total", "Order total must be greater than 0", "INVALID_TOTAL"))

InvalidDeliveryFee(o, st) ==
    PushIf(st, o.deliveryFee < 0,
           Err("deliveryFee", "Delivery fee cannot be negative", "INVALID_DELIVERY_FEE"))

TotalCalculationError(o, st) ==
    PushIf(st, TotalMismatch(o),
           Err("total",
               "Order total calculation error. Expected: R" \o toFixed2(expectedTotal(o))
                   \o ", Received: R" \o toFixed2(o.total),
               "TOTAL_CALCULATION_ERROR"))

DbAmounts(o, st) == TotalCalculationError(o, InvalidDeliveryFee(o, InvalidTotal(o, st)))

NoErrorsYet ==
    [errors |-> <<>>, warnings |-> <<>>, calls |-> <<>>, raised |-> FALSE,
     pushedAfter |-> <<>>]

\* The body of the try block
\* Each block of the try body runs unless an earlier one threw
DbGuestStep(o, st) == IF st.raised \/ ~IsGuest(o) THEN st ELSE DbGuest(o, st)

DbAuthStep(o, e, st) == IF st.raised \/ ~IsAuth(o) THEN st ELSE DbAuth(o, e, st)

DbDiscountStep(o, e, st) == IF st.raised THEN st ELSE DbDiscount(o, e, st)

DbAmountsStep(o, st) == IF st.raised THEN st ELSE DbAmounts(o, st)

DbTry(o, e) ==
    DbAmountsStep(o,
        DbDiscountStep(o, e,
            DbAuthStep(o, e,
                DbGuestStep(o,
                    DbCart(o, e, DbDeliveryMethod(o, NoErrorsYet))))))

\* Mutant of DbCatch: the exception is swallowed and no error is pushed
DbCatchSilent(st) == [st EXCEPT !.raised = FALSE]

\* The catch block: the exception stops here and one generic error is pushed
DbCatch(st) ==
    IF st.raised
    THEN [Push(st, Err("general", "An error occurred during validation. Please try again.",
                       "VALIDATION_ERROR")) EXCEPT !.raised = FALSE]
    ELSE st

\* Mutant of DbIsValid: warnings invalidate too
DbIsValidCountingWarnings(errors, warnings) == Len(errors) = 0 /\ Len(warnings) = 0

DbIsValid(errors, warnings) == Len(errors) = 0

\* The promise settles "rejected" when an exception leaves the function
DbReturn(st, caught) ==
    [isValid |-> DbIsValid(st.errors, st.warnings), errors |-> st.errors,
     warnings |-> st.warnings, calls |-> st.calls, caught |-> caught,
     pushedAfter |-> st.pushedAfter,
     settled |-> IF st.raised THEN "rejected" ELSE "resolved"]

DbCaught(tried) == DbReturn(DbCatch(tried), tried.raised)

validateDatabaseConstraints(o, e) == DbCaught(DbTry(o, e))

(***************************************************************************)
(* order-validation: validateBusinessRules and validateOrder               *)
(***************************************************************************)
minimumOrderValue == 5000

maximumOrderValue == 1000000

maxQuantityPerItem == 10

RECURSIVE BusinessQuantityErrors(_, _)
BusinessQuantityErrors(items, index) ==
    IF index > Len(items) THEN <<>>
    ELSE (IF items[index].quantity > maxQuantityPerItem
          THEN <<Err("cartItems", "Maximum quantity per item is 10", "EXCESSIVE_QUANTITY")>>
          ELSE <<>>)
         \o BusinessQuantityErrors(items, index + 1)

BusinessIsValid(errors, warnings) == Len(errors) = 0

\* validateBusinessRules of order-validation, the one validateOrder calls
BusinessWarnings(o) ==
    IF o.subtotal < minimumOrderValue
    THEN <<Warn("subtotal", "Orders under R50 may have extended processing times",
                "LOW_ORDER_VALUE")>>
    ELSE <<>>

BusinessErrors(o) ==
    (IF o.total > maximumOrderValue
     THEN <<Err("total", "Order total exceeds maximum allowed amount of R10000",
                "EXCESSIVE_ORDER_VALUE")>>
     ELSE <<>>)
    \o BusinessQuantityErrors(o.cartItems, 1)

BusinessReturn(errors, warnings) ==
    [isValid |-> BusinessIsValid(errors, warnings), errors |-> errors,
     warnings |-> warnings]

validateBusinessRules(o) == BusinessReturn(BusinessErrors(o), BusinessWarnings(o))

\* Mutant of MergeResults: the business-rule errors are left out of the list
MergeResultsDbErrorsOnly(db, business) ==
    [isValid |-> db.isValid /\ business.isValid,
     errors |-> db.errors,
     warnings |-> db.warnings \o business.warnings]

\* The object validateOrder returns from the two awaited results
MergeResults(db, business) ==
    [isValid |-> db.isValid /\ business.isValid,
     errors |-> db.errors \o business.errors,
     warnings |-> db.warnings \o business.warnings]

\* validateOrder: Promise.all rejects when validateDatabaseConstraints rejects
PromiseAll(db, business) ==
    [dbValidation |-> db, businessValidation |-> business,
     result |-> IF db.settled = "rejected"
                THEN [rejected |-> TRUE]
                ELSE MergeResults(db, business)]

validateOrder(o, e) == PromiseAll(validateDatabaseConstraints(o, e), validateBusinessRules(o))

(***************************************************************************)
(* The drafts of the model                                                 *)
(***************************************************************************)
MaxCart == 2

Names == {<<>>, <<" ">>, <<"J", "o">>}

Emails ==
    {<<>>,
     <<"b", "a", "d">>,
     <<"j", "o", "@", "x", ".", "c", "o", "m">>,
     <<"j", "o", "h", "n", "@", "x", ".", "c", "o">>,
     <<"a", "@", "b", "@", "c", ".", "d">>}

Phones == {<<>>, <<"1", "2", "3">>, <<"0", "1", "2", "3", "4", "5", "6", "7", "8", "9">>}

Streets == {<<>>, <<"1", " ", "M", "a", "i", "n">>}

Cities == {<<>>, <<"C", "T">>}

Provinces == {<<>>, <<"W", "C">>}

PostalCodes == {<<>>, <<"8", "0", "0", "1">>}

GuestIdentities ==
    {[customerInfo |-> [full_name |-> n, email |-> m, phone |-> p],
      address |-> [street_address |-> s, city |-> c, province |-> v,
                   postal_code |-> z, phone |-> p]] :
        n \in Names, m \in Emails, p \in Phones, s \in Streets, c \in Cities,
        v \in Provinces, z \in PostalCodes}

AuthIdentities ==
    {[userId |-> u, addressId |-> a] :
        u \in {"", " ", "user-123", "user-999"},
        a \in {"", "addr-456", "addr-777", "addr-000"}}

ValidGuest ==
    [customerInfo |-> [full_name |-> <<"J", "o">>,
                       email |-> <<"j", "o", "h", "n", "@", "x", ".", "c", "o">>,
                       phone |-> <<"0", "1", "2", "3", "4", "5", "6", "7", "8", "9">>],
     address |-> [street_address |-> <<"1", " ", "M", "a", "i", "n">>, city |-> <<"C", "T">>,
                  province |-> <<"W", "C">>, postal_code |-> <<"8", "0", "0", "1">>,
                  phone |-> <<"0", "1", "2", "3", "4", "5", "6", "7", "8", "9">>]]

ValidAuth == [userId |-> "user-123", addressId |-> "addr-456"]

BaseIdentities == {ValidGuest, ValidAuth}

Items ==
    {[product_id |-> "prod-1", quantity |-> 2, price |-> 29999],
     [product_id |-> "prod-1", quantity |-> 0, price |-> 29999],
     [product_id |-> "prod-1", quantity |-> 15, price |-> 29999],
     [product_id |-> "prod-1", quantity |-> 1, price |-> 25000],
     [product_id |-> "prod-2", quantity |-> 1, price |-> 49999],
     [product_id |-> "prod-3", quantity |-> 15, price |-> 1500000],
     [product_id |-> "prod-9", quantity |-> 1, price |-> 1000]}

Carts == UNION {[1..n -> Items] : n \in 0..MaxCart}

BaseCarts == {<<>>, <<[product_id |-> "prod-1", quantity |-> 2, price |-> 29999]>>}

Discounts ==
    {<<>>,
     <<[discountAmount |-> 0]>>,
     <<[discountCode |-> "SAVE10", discountAmount |-> 6000]>>,
     <<[discountCode |-> "BOGUS", discountAmount |-> 6000]>>}

\* The amount fields of a draft; d is <<>> or holds the optional discount fields
AmountFields(method, fee, subtotal, d, total) ==
    LET common == [deliveryMethod |-> method, deliveryFee |-> fee,
                   subtotal |-> subtotal, total |-> total]
    IN  IF Len(d) = 0 THEN common ELSE common @@ d[1]

Amounts ==
    {AmountFields(m, f, s, d, s + f - (IF Len(d) = 0 THEN 0 ELSE d[1].discountAmount) + off) :
        m \in {"", "courier_guy", "pudo", "standard"},
        f \in {-100, 6500, 9900},
        s \in {0, 4000, 59998, 990100, 1500000},
        d \in Discounts,
        off \in {-2, 0, 2}}

\* Totals one cent away from the expected total
OneCentAmounts ==
    {AmountFields("standard", t[3], t[2], <<>>, t[1]) : t \in OneCentAbove \cup OneCentNotAbove}

BaseAmounts ==
    {AmountFields("standard", 9900, 59998, <<>>, 69898),
     AmountFields("courier_guy", 9900, 59998, <<>>, 69898)}

Draft(identity, cart, amounts) == identity @@ [cartItems |-> cart] @@ amounts

Drafts ==
    {Draft(i, c, a) : i \in GuestIdentities \cup AuthIdentities, c \in BaseCarts, a \in BaseAmounts}
    \cup {Draft(i, c, a) : i \in BaseIdentities, c \in Carts, a \in BaseAmounts}
    \cup {Draft(i, c, a) : i \in BaseIdentities, c \in BaseCarts,
                           a \in Amounts \cup OneCentAmounts}

\* Remote calls a run on the draft makes when none fails
CallCount(o) ==
    Len(o.cartItems) + (IF IsAuth(o) THEN 2 ELSE 0) + (IF HasDiscountCode(o) THEN 1 ELSE 0)

Faults(o) ==
    {NoFault} \cup {[at |-> k, mode |-> m] : k \in 1..CallCount(o), m \in {"error", "raise"}}

SessionUsers(o) == IF IsAuth(o) THEN {NoUser, "user-123"} ELSE {NoUser}

NoFaults == [entry |-> FALSE, store |-> "ok", alert |-> FALSE]

\* The state of a freshly constructed logger and an empty order_audit_logs
InitLogger ==
    /\ loggerCalls = <<>>
    /\ auditLogs = <<>>
    /\ alerts = <<>>
    /\ loggerOutcome = "none"
    /\ lastAttempt = "none"

NoForm == [flow |-> "none"]

\* No checkout page is open and the order tables are empty
InitNoCheckout ==
    /\ form = NoForm
    /\ orders = <<>>
    /\ orderItems = <<>>
    /\ cartRows = <<>>
    /\ guestCart = <<>>
    /\ checkoutRuns = <<>>

\* No function is applied on its own
InitNoApply ==
    /\ argument = NoResult
    /\ returned = NoResult

(***************************************************************************)
(* Validation runs                                                         *)
(***************************************************************************)
InitValidate ==
    /\ orderData \in Drafts
    /\ ran = "none"
    /\ clientResult = NoResult
    /\ dbValidation = NoResult
    /\ businessValidation = NoResult
    /\ orderResult = NoResult
    /\ remoteCalls = <<>>
    /\ env = [sessionUser |-> NoUser, fault |-> NoFault]
    /\ InitLogger
    /\ InitNoCheckout
    /\ InitNoApply

\* A client component calls validateOrderClient on the draft
RunValidateOrderClient ==
    /\ ran = "none"
    /\ ran' = "client"
    /\ clientResult' = validateOrderClient(orderData)
    /\ UNCHANGED <<orderData, dbValidation, businessValidation, orderResult,
                   remoteCalls, env>>
    /\ UNCHANGED auditVars
    /\ UNCHANGED checkoutVars
    /\ UNCHANGED applyVars

\* What a validateOrder run leaves with its caller
ValidateOrderReturns(run) ==
    /\ dbValidation' = run.dbValidation
    /\ businessValidation' = run.businessValidation
    /\ orderResult' = run.result
    /\ remoteCalls' = run.dbValidation.calls

\* validateOrder: Promise.all of the two validators, then the merge
RunValidateOrder ==
    /\ ran = "none"
    /\ \E u \in SessionUsers(orderData), f \in Faults(orderData) :
        /\ env' = [sessionUser |-> u, fault |-> f]
        /\ ValidateOrderReturns(validateOrder(orderData, [sessionUser |-> u, fault |-> f]))
    /\ ran' = "order"
    /\ UNCHANGED <<orderData, clientResult>>
    /\ UNCHANGED auditVars
    /\ UNCHANGED checkoutVars
    /\ UNCHANGED applyVars

NextValidate == RunValidateOrderClient \/ RunValidateOrder

SpecValidate == InitValidate /\ [][NextValidate]_vars


(***************************************************************************)
(* Claims about the validators, checked under SpecValidate                 *)
(***************************************************************************)
Entries(list) == {list[i] : i \in 1..Len(list)}

\* merged holds every entry of a and of b, each as often as a and b together
SameBag(merged, a, b) ==
    \A x \in Entries(merged) \cup Entries(a) \cup Entries(b) :
        Count(merged, x) = Count(a, x) + Count(b, x)

\* C2: whenever validateOrder returns isValid=false for a draft,
\* orderAuditLogger.logValidationViolation is invoked with that draft and the
\* returned error list.
C2_RejectionIsAudited ==
    (ran = "order" /\ ~orderResult.isValid) =>
        \E i \in 1..Len(loggerCalls) :
            /\ loggerCalls[i].method = "logValidationViolation"
            /\ loggerCalls[i].orderData = orderData
            /\ loggerCalls[i].errors = orderResult.errors

\* C3: validateOrder's isValid is true exactly when both results are valid, and
\* its errors (warnings) are both error (warning) lists together, nothing
\* dropped and no duplicate removed.
C3_MergeKeepsEveryEntry ==
    ran = "order" =>
        /\ dbValidation # NoResult
        /\ businessValidation # NoResult
        /\ orderResult.isValid = (dbValidation.isValid /\ businessValidation.isValid)
        /\ Len(orderResult.errors) = Len(dbValidation.errors) + Len(businessValidation.errors)
        /\ SameBag(orderResult.errors, dbValidation.errors, businessValidation.errors)
        /\ Len(orderResult.warnings)
               = Len(dbValidation.warnings) + Len(businessValidation.warnings)
        /\ SameBag(orderResult.warnings, dbValidation.warnings, businessValidation.warnings)

\* C3 witness: both validators reported errors and one entry occurs twice
C3_Witness ==
    /\ ran = "order"
    /\ Len(dbValidation.errors) > 0
    /\ Len(businessValidation.errors) > 0
    /\ \E x \in Entries(orderResult.errors) : Count(orderResult.errors, x) = 2

\* C4: every error the client-side validateBusinessRules reports for a draft
\* is present, by its code, in validateOrder's errors for that draft.
C4_ClientErrorsInValidateOrder ==
    ran = "order" =>
        \A x \in Entries(ClientValidateBusinessRules(orderData).errors) :
            HasCode(orderResult.errors, x.code)

\* C5: each validator's isValid is true if and only if its errors list is
\* empty, whatever its warnings.
C5_ValidIffNoErrors ==
    /\ ran = "client" => (clientResult.isValid <=> Len(clientResult.errors) = 0)
    /\ ran = "order" =>
        /\ dbValidation.isValid <=> Len(dbValidation.errors) = 0
        /\ businessValidation.isValid <=> Len(businessValidation.errors) = 0
        /\ orderResult.isValid <=> Len(orderResult.errors) = 0

\* C5 witness: validateOrder accepted a draft and returned warnings
C5_Witness ==
    /\ ran = "order"
    /\ orderResult.isValid
    /\ Len(dbValidation.warnings) > 0

\* C6: for a draft with cartItems = [], both validators return isValid=false
\* with a cart-empty error on field cartItems, of the code CART_EMPTY the test
\* expects in validateOrder's errors, and the server makes no product lookup.
C6_EmptyCartRejected ==
    Len(orderData.cartItems) = 0 =>
        /\ ran = "client" =>
            /\ ~clientResult.isValid
            /\ HasError(clientResult.errors, "CART_EMPTY", "cartItems")
        /\ ran = "order" =>
            /\ ~dbValidation.isValid
            /\ HasError(orderResult.errors, "CART_EMPTY", "cartItems")
            /\ \A i \in 1..Len(remoteCalls) : remoteCalls[i].op # "products"

\* C7: when no lookup raised, the server validator reports a total-mismatch
\* error on field total exactly when total and subtotal + deliveryFee -
\* discountAmount differ by more than 0.01 (one cent).
C7_MismatchBeyondOneCent ==
    (ran = "order" /\ ~dbValidation.caught) =>
        (HasError(dbValidation.errors, "TOTAL_CALCULATION_ERROR", "total")
            <=> Abs(orderData.total - expectedTotal(orderData)) > 1)

\* The op of the remote call the fault was injected into
FaultedCall == remoteCalls[env.fault.at].op

\* The errors a run without the fault pushes before its k-th remote call
ErrorsBeforeCall(o, e, k) ==
    LET clean == validateDatabaseConstraints(o, [e EXCEPT !.fault = NoFault])
    IN  SelectSeq([i \in 1..Len(clean.errors) |->
                      [error |-> clean.errors[i], after |-> clean.pushedAfter[i]]],
                  LAMBDA x : x.after < k)

C14_MaximumOrderExceeded ==
    ran = "order" =>
        /\ orderData.total > maximumOrderValue =>
               /\ ~orderResult.isValid
               /\ HasError(orderResult.errors, "MAXIMUM_ORDER_EXCEEDED", "total")
        /\ orderData.total = maximumOrderValue =>
               /\ ~HasCode(orderResult.errors, "MAXIMUM_ORDER_EXCEEDED")
               /\ ~HasCode(orderResult.errors, "EXCESSIVE_ORDER_VALUE")

\* Every cart line names an existing, available product with enough stock,
\* at the price of the catalogue and in a quantity of 1 to 10
WellFormedCart(o) ==
    /\ Len(o.cartItems) > 0
    /\ \A i \in 1..Len(o.cartItems) :
        /\ o.cartItems[i].product_id \in DOMAIN Products
        /\ Products[o.cartItems[i].product_id].is_available
        /\ Products[o.cartItems[i].product_id].stock_quantity # <<>>
        /\ Products[o.cartItems[i].product_id].stock_quantity[1] >= o.cartItems[i].quantity
        /\ Products[o.cartItems[i].product_id].price = o.cartItems[i].price
        /\ o.cartItems[i].quantity \in 1..maxQuantityPerItem

\* No discount, a fee that is not negative and a total that is the subtotal
\* plus the fee, above zero and within the maximum
WellFormedAmounts(o) ==
    /\ "discountCode" \notin DOMAIN o
    /\ "discountAmount" \notin DOMAIN o
    /\ o.deliveryFee >= 0
    /\ o.subtotal >= minimumOrderValue
    /\ o.total = o.subtotal + o.deliveryFee
    /\ o.total > 0
    /\ o.total <= maximumOrderValue

\* Every contact and address field filled and the email of the form
\* local@domain.tld
WellFormedGuest(o) ==
    /\ IsGuest(o)
    /\ ~IsBlank(o.customerInfo.full_name)
    /\ ClientEmailPattern(o.customerInfo.email)
    /\ Len(o.customerInfo.phone) = 10
    /\ ~IsBlank(o.address.street_address)
    /\ ~IsBlank(o.address.city)
    /\ ~IsBlank(o.address.province)
    /\ ~IsBlank(o.address.postal_code)

\* The draft names the session's user and an address that user owns
WellFormedAuth(o, e) ==
    /\ IsAuth(o)
    /\ o.userId = e.sessionUser
    /\ o.userId # NoUser
    /\ o.addressId \in DOMAIN Addresses
    /\ Addresses[o.addressId] = o.userId

\* C15: validateOrder accepts a well-formed order placed with a delivery
\* method the checkout offers: a well-formed guest draft with courier_guy, or
\* a well-formed draft of a signed-in user with pudo, gets isValid = TRUE and
\* no errors when no remote call fails.
C15_OfferedDeliveryMethodAccepted ==
    (/\ ran = "order"
     /\ env.fault = NoFault
     /\ WellFormedCart(orderData)
     /\ WellFormedAmounts(orderData)
     /\ \/ WellFormedGuest(orderData) /\ orderData.deliveryMethod = "courier_guy"
        \/ WellFormedAuth(orderData, env) /\ orderData.deliveryMethod = "pudo")
    => /\ orderResult.isValid
       /\ Len(orderResult.errors) = 0

\* C16: for a guest draft with a blank full_name and an email that is not of
\* the form local@domain.tld, validateOrder returns isValid = FALSE with an
\* error INVALID_EMAIL on customerInfo.email and an error on the missing
\* name, and no total-mismatch error when the total is subtotal + fee -
\* discount.
C16_InvalidEmailReported ==
    (/\ ran = "order"
     /\ env.fault = NoFault
     /\ IsGuest(orderData)
     /\ IsBlank(orderData.customerInfo.full_name)
     /\ ~IsBlank(orderData.customerInfo.email)
     /\ ~ClientEmailPattern(orderData.customerInfo.email)
     /\ ~ServerEmailPattern(orderData.customerInfo.email))
    => /\ ~orderResult.isValid
       /\ HasError(orderResult.errors, "INVALID_EMAIL", "customerInfo.email")
       /\ \E i \in 1..Len(orderResult.errors) :
              orderResult.errors[i].field = "customerInfo.full_name"
       /\ orderData.total = expectedTotal(orderData) =>
              /\ ~HasCode(orderResult.errors, "TOTAL_CALCULATION_ERROR")
              /\ ~HasCode(orderResult.errors, "CALCULATION_MISMATCH")

\* C17: a guest draft whose customer phone is the three characters 123 is
\* rejected by validateOrder with isValid = FALSE and an error INVALID_PHONE
\* on customerInfo.phone.
C17_MalformedPhoneRejected ==
    (/\ ran = "order"
     /\ IsGuest(orderData)
     /\ orderData.customerInfo.phone = <<"1", "2", "3">>)
    => /\ ~orderResult.isValid
       /\ HasError(orderResult.errors, "INVALID_PHONE", "customerInfo.phone")

\* Number of entries of a list with the code
CountCode(errs, code) == Cardinality({k \in 1..Len(errs) : errs[k].code = code})

\* The lookup of the i-th cart line answered with a product
Found(i) ==
    /\ CallMode(env, i) = "ok"
    /\ orderData.cartItems[i].product_id \in DOMAIN Products

FoundProduct(i) == Products[orderData.cartItems[i].product_id]

CartLines == 1..Len(orderData.cartItems)

DiscountCalls == {k \in 1..Len(remoteCalls) : remoteCalls[k].op = "rpc.validate_discount_code"}

\* An exception was thrown by a lookup that comes before the discount call
RaisedBeforeDiscount == env.fault.mode = "raise" /\ env.fault.at < CallCount(orderData)

QuantityField(i) == "cartItems[" \o ToString(i - 1) \o "].quantity"

\* The draft breaks no rule of the client validator other than the one on
\* large quantities
NoOtherClientViolation(o) ==
    /\ Len(o.cartItems) > 0
    /\ \A i \in 1..Len(o.cartItems) : o.cartItems[i].quantity > 0
    /\ o.total > 0
    /\ o.deliveryMethod # ""
    /\ IsGuest(o) =>
           /\ ~IsBlank(o.customerInfo.full_name)
           /\ ClientEmailPattern(o.customerInfo.email)
           /\ ~IsBlank(o.customerInfo.phone)
           /\ ~IsBlank(o.address.street_address)
           /\ ~IsBlank(o.address.city)
           /\ ~IsBlank(o.address.province)
           /\ ~IsBlank(o.address.postal_code)
    /\ IsAuth(o) => ~IsBlankLabel(o.userId) /\ ~IsBlankLabel(o.addressId)

UpdatePolicyUsingTrue(row) == TRUE

\* CREATE POLICY "No updates allowed" ... FOR UPDATE USING (false)
UpdatePolicyUsing(row) == FALSE

\* CREATE POLICY "No deletes allowed" ... FOR DELETE USING (false)
DeletePolicyUsing(row) == FALSE

\* CREATE POLICY "System can insert audit logs" ... WITH CHECK (true)
InsertPolicyCheck(row) == TRUE

\* UPDATE order_audit_logs SET severity = ... WHERE id = ...; the trigger
\* update_order_audit_logs_updated_at touches each row that is updated
UpdateRows(rows, id, severity) ==
    [i \in 1..Len(rows) |->
        IF rows[i].id = id /\ UpdatePolicyUsing(rows[i])
        THEN [rows[i] EXCEPT !.severity = severity, !.touched = @ + 1]
        ELSE rows[i]]

\* DELETE FROM order_audit_logs WHERE id = ...
DeleteRows(rows, id) ==
    SelectSeq(rows, LAMBDA row : ~(row.id = id /\ DeletePolicyUsing(row)))

(***************************************************************************)
(* order-audit-logger: OrderAuditLogger                                    *)
(***************************************************************************)
criticalCodes == {"PRODUCT_NOT_FOUND", "CALCULATION_MISMATCH", "CART_EMPTY", "INVALID_USER_ID"}

highCodes ==
    {"PRODUCT_OUT_OF_STOCK", "INVALID_DISCOUNT_CODE", "DISCOUNT_USAGE_EXCEEDED",
     "MAXIMUM_ORDER_EXCEEDED"}

mediumCodes ==
    {"PRODUCT_PRICE_CHANGED", "DISCOUNT_EXPIRED", "MINIMUM_ORDER_NOT_MET", "INVALID_QUANTITY"}

\* Mutant of determineSeverity: the high tier is looked at before the critical one
determineSeverityHighFirst(errors) ==
    IF \E i \in 1..Len(errors) : errors[i].code \in highCodes THEN "high"
    ELSE IF \E i \in 1..Len(errors) : errors[i].code \in criticalCodes THEN "critical"
    ELSE IF \E i \in 1..Len(errors) : errors[i].code \in mediumCodes THEN "medium"
    ELSE "low"

determineSeverity(errors) ==
    IF \E i \in 1..Len(errors) : errors[i].code \in criticalCodes THEN "critical"
    ELSE IF \E i \in 1..Len(errors) : errors[i].code \in highCodes THEN "high"
    ELSE IF \E i \in 1..Len(errors) : errors[i].code \in mediumCodes THEN "medium"
    ELSE "low"

determineEventType(errors) ==
    IF \E i \in 1..Len(errors) : errors[i].severity = "error" THEN "validation_failure"
    ELSE IF \E i \in 1..Len(errors) : errors[i].severity = "warning" THEN "validation_warning"
    ELSE "validation_failure"

\* '*'.repeat(n); a negative count throws RangeError
Stars(n) == [i \in 1..n |-> "*"]

RepeatThrows(n) == n < 0

\* Index of the first "@" at or after position from, 0 when there is none
RECURSIVE IndexOfAt(_, _)
IndexOfAt(s, from) ==
    IF from > Len(s) THEN 0
    ELSE IF s[from] = "@" THEN from
    ELSE IndexOfAt(s, from + 1)

UndefinedText == <<"u", "n", "d", "e", "f", "i", "n", "e", "d">>

\* const [username, domain] = email.split('@')
SplitUsername(email) ==
    IF IndexOfAt(email, 1) = 0 THEN email ELSE SubSeq(email, 1, IndexOfAt(email, 1) - 1)

SplitDomain(email) ==
    LET i == IndexOfAt(email, 1)
        j == IndexOfAt(email, i + 1)
    IN  IF i = 0 THEN UndefinedText
        ELSE IF j = 0 THEN SubSeq(email, i + 1, Len(email))
        ELSE SubSeq(email, i + 1, j - 1)

\* Mutant of maskEmail: three characters of the username are kept
maskEmailKeepsThree(email) ==
    (IF Len(SplitUsername(email)) > 3
     THEN SubSeq(SplitUsername(email), 1, 3) \o Stars(Len(SplitUsername(email)) - 3)
     ELSE SplitUsername(email))
    \o <<"@">> \o SplitDomain(email)

maskEmail(email) ==
    LET username == SplitUsername(email)
        maskedUsername ==
            IF Len(username) > 2
            THEN SubSeq(username, 1, 2) \o Stars(Len(username) - 2)
            ELSE username
    IN  maskedUsername \o <<"@">> \o SplitDomain(email)

maskPhoneThrows(phone) == Len(phone) > 4 /\ RepeatThrows(Len(phone) - 6)

maskPhone(phone) ==
    IF Len(phone) > 4
    THEN SubSeq(phone, 1, 3) \o Stars(Len(phone) - 6) \o SubSeq(phone, Len(phone) - 2, Len(phone))
    ELSE phone

sanitizeThrows(o) ==
    IsGuest(o) /\ (maskPhoneThrows(o.customerInfo.phone) \/ maskPhoneThrows(o.address.phone))

sanitizeOrderData(o) ==
    IF IsGuest(o)
    THEN [o EXCEPT !.customerInfo.email = maskEmail(@),
                   !.customerInfo.phone = maskPhone(@),
                   !.address.phone = maskPhone(@)]
    ELSE o

sessionId == "session_1"

\* 'userId' in orderData ? orderData.userId : undefined; a nullable column
EntryUserId(o) == IF IsAuth(o) THEN <<o.userId>> ELSE <<>>

\* The private method name has run to its end inside the current call
StepDone(a, name) == [a EXCEPT !.steps = Append(@, name)]

\* storeAuditLog: the insert inside its own try/catch. The logger state a
\* method works on holds the persisted rows, the alerts sent, the private
\* methods that ran in the current call, and whether an exception is
\* propagating
storeAuditLog(a, logEntry, mode) ==
    StepDone(IF mode = "ok" /\ InsertPolicyCheck(logEntry)
             THEN [a EXCEPT !.logs = Append(@, logEntry @@ [id |-> Len(a.logs) + 1,
                                                            touched |-> 0])]
             ELSE a,
             "storeAuditLog")

\* sendCriticalAlert: console.error inside its own try/catch
sendCriticalAlert(a, logEntry, raises) ==
    StepDone(IF raises
             THEN a
             ELSE [a EXCEPT !.alerts = Append(@, [event_type |-> logEntry.event_type,
                                                  user_id |-> logEntry.user_id,
                                                  errors |-> logEntry.validation_errors,
                                                  severity |-> logEntry.severity])],
             "sendCriticalAlert")

\* Mutant of LoggerCatch: the catch block rethrows
LoggerCatchRethrows(a) == a

\* The catch block of the three logging methods: console.error, nothing thrown
LoggerCatch(a) == [a EXCEPT !.thrown = FALSE]

\* Building the entry throws when sanitizeOrderData does or when the
\* runtime has no navigator
EntryThrows(o, faults) == sanitizeThrows(o) \/ faults.entry

logValidationViolation(a, o, errors, additionalContext, faults) ==
    LET severity == determineSeverity(errors)
        eventType == determineEventType(errors)
        logEntry == [event_type |-> eventType, user_id |-> EntryUserId(o),
                     session_id |-> sessionId, order_data |-> sanitizeOrderData(o),
                     validation_errors |-> errors, severity |-> severity,
                     ip_address |-> "client_ip_masked", user_agent |-> "navigator.userAgent",
                     additional_context |-> additionalContext]
        stored == storeAuditLog(a, logEntry, faults.store)
        tried == IF EntryThrows(o, faults) THEN [a EXCEPT !.thrown = TRUE]
                 ELSE IF severity = "critical"
                 THEN sendCriticalAlert(stored, logEntry, faults.alert)
                 ELSE stored
    IN  LoggerCatch(tried)

logValidationSuccess(a, o, warnings, faults) ==
    LET logEntry == [event_type |-> "validation_warning", user_id |-> EntryUserId(o),
                     session_id |-> sessionId, order_data |-> sanitizeOrderData(o),
                     validation_errors |-> warnings, severity |-> "low",
                     ip_address |-> "client_ip_masked", user_agent |-> "navigator.userAgent",
                     additional_context |-> <<>>]
        tried == IF Len(warnings) > 0
                 THEN IF EntryThrows(o, faults) THEN [a EXCEPT !.thrown = TRUE]
                      ELSE storeAuditLog(a, logEntry, faults.store)
                 ELSE a
    IN  LoggerCatch(tried)

logSuspiciousActivity(a, description, o, context, faults) ==
    LET logEntry == [event_type |-> "suspicious_activity", user_id |-> EntryUserId(o),
                     session_id |-> sessionId, order_data |-> sanitizeOrderData(o),
                     validation_errors |-> <<Err("system", description, "SUSPICIOUS_ACTIVITY")>>,
                     severity |-> "high",
                     ip_address |-> "client_ip_masked", user_agent |-> "navigator.userAgent",
                     additional_context |-> context]
        tried == IF EntryThrows(o, faults) THEN [a EXCEPT !.thrown = TRUE]
                 ELSE sendCriticalAlert(storeAuditLog(a, logEntry, faults.store),
                                        logEntry, faults.alert)
    IN  LoggerCatch(tried)

\* How the promise of a logging method settles
Settled(a) == IF a.thrown THEN "rejected" ELSE "resolved"


(***************************************************************************)
(* Checkout page, GuestCheckoutForm and CheckoutForm                       *)
(***************************************************************************)
MaxCheckouts == 2

DELIVERY_OPTIONS == [courier_guy |-> 9900, pudo |-> 6500]

\* DELIVERY_OPTIONS.find(opt => opt.id === deliveryMethod)?.price || 0
FormDeliveryFee(f) ==
    IF f.deliveryMethod \in DOMAIN DELIVERY_OPTIONS
    THEN DELIVERY_OPTIONS[f.deliveryMethod] ELSE 0

\* appliedDiscount?.amount || 0
FormDiscountAmount(f) ==
    IF f.appliedDiscount = "null" THEN 0 ELSE f.appliedDiscount.amount

FormTotal(f) == f.subtotal + FormDeliveryFee(f) - FormDiscountAmount(f)

\* A cart_items row as the page selects it: the product is joined under the
\* key "product"
CartRow(id, productId, quantity) ==
    [id |-> id, product_id |-> productId, quantity |-> quantity, size |-> "M",
     color |-> "Black",
     product |-> [id |-> productId, name |-> Products[productId].name,
                  price |-> Products[productId].price,
                  stock_quantity |-> Products[productId].stock_quantity]]

\* What cart_items can hold for the session user when the page is opened
UserCarts ==
    {<<>>,
     <<CartRow("cart-1", "prod-1", 2)>>,
     <<CartRow("cart-1", "prod-2", 1)>>,
     <<CartRow("cart-1", "prod-1", 20), CartRow("cart-2", "prod-3", 1)>>}

GuestCarts ==
    {<<>>,
     <<[id |-> "guest-1", product_id |-> "prod-1", quantity |-> 2,
        size |-> "M", color |-> "Black"]>>}

CheckoutUsers == {NoUser, "user-123", "user-555"}

\* The addresses rows of a user
UserAddresses(user) ==
    IF user = "user-123" THEN <<[id |-> "addr-456", is_default |-> FALSE]>> ELSE <<>>

RECURSIVE PageSubtotal(_)
PageSubtotal(rows) ==
    IF rows = <<>> THEN 0
    ELSE rows[1].product.price * rows[1].quantity + PageSubtotal(Tail(rows))

\* useState(addresses.find(a => a.is_default)?.id || addresses[0]?.id)
InitialSelectedAddress(addresses) ==
    IF \E i \in 1..Len(addresses) : addresses[i].is_default
    THEN addresses[CHOOSE i \in 1..Len(addresses) :
                      /\ addresses[i].is_default
                      /\ \A j \in 1..(i - 1) : ~addresses[j].is_default].id
    ELSE IF Len(addresses) > 0 THEN addresses[1].id ELSE "undefined"

CheckoutForm(rows, addresses, subtotal) ==
    [flow |-> "auth", cartItems |-> rows, addresses |-> addresses, subtotal |-> subtotal,
     selectedAddress |-> InitialSelectedAddress(addresses),
     deliveryMethod |-> "courier_guy", appliedDiscount |-> "null",
     isProcessing |-> FALSE, showWhatsAppMessages |-> FALSE, orderCreated |-> "null"]

GuestCheckoutForm(items, products, subtotal) ==
    [flow |-> "guest", cartItems |-> items, products |-> products, subtotal |-> subtotal,
     customerInfo |-> [full_name |-> <<>>, email |-> <<>>, phone |-> <<>>],
     address |-> [street_address |-> <<>>, city |-> <<>>, province |-> <<>>,
                  postal_code |-> <<>>],
     deliveryMethod |-> "courier_guy", appliedDiscount |-> "null",
     isProcessing |-> FALSE, showWhatsAppMessages |-> FALSE, orderCreated |-> "null"]

\* What the checkout page renders for the session user
CheckoutPage(user, rows) ==
    IF user # NoUser /\ Len(rows) = 0
    THEN [flow |-> "redirect"]
    ELSE IF user # NoUser
         THEN CheckoutForm(rows, UserAddresses(user), PageSubtotal(rows))
         ELSE GuestCheckoutForm(<<>>, Products, 0)

InitCheckout ==
    /\ orderData = NoResult
    /\ ran = "none"
    /\ clientResult = NoResult
    /\ dbValidation = NoResult
    /\ businessValidation = NoResult
    /\ orderResult = NoResult
    /\ remoteCalls = <<>>
    /\ \E user \in CheckoutUsers :
        /\ env = [sessionUser |-> user, fault |-> NoFault]
        /\ cartRows \in (IF user = NoUser THEN {<<>>} ELSE UserCarts)
        /\ guestCart \in (IF user = NoUser THEN GuestCarts ELSE {<<>>})
        /\ form = CheckoutPage(user, cartRows)
    /\ orders = <<>>
    /\ orderItems = <<>>
    /\ checkoutRuns = <<>>
    /\ InitLogger
    /\ InitNoApply

FormOpen == form.flow \in {"guest", "auth"} /\ ~form.showWhatsAppMessages

SetDeliveryMethod ==
    /\ FormOpen
    /\ \E m \in DOMAIN DELIVERY_OPTIONS : form' = [form EXCEPT !.deliveryMethod = m]
    /\ UNCHANGED <<orders, orderItems, cartRows, guestCart, checkoutRuns>>
    /\ UNCHANGED <<validateVars, auditVars>>
    /\ UNCHANGED applyVars

\* updateCustomerInfo and updateAddress, one field at a time
UpdateCustomerInfo ==
    /\ FormOpen
    /\ form.flow = "guest"
    /\ \/ \E v \in Names : form' = [form EXCEPT !.customerInfo.full_name = v]
       \/ \E v \in Emails : form' = [form EXCEPT !.customerInfo.email = v]
       \/ \E v \in Phones : form' = [form EXCEPT !.customerInfo.phone = v]
    /\ UNCHANGED <<orders, orderItems, cartRows, guestCart, checkoutRuns>>
    /\ UNCHANGED <<validateVars, auditVars>>
    /\ UNCHANGED applyVars

UpdateAddress ==
    /\ FormOpen
    /\ form.flow = "guest"
    /\ \/ \E v \in Streets : form' = [form EXCEPT !.address.street_address = v]
       \/ \E v \in Cities : form' = [form EXCEPT !.address.city = v]
       \/ \E v \in Provinces : form' = [form EXCEPT !.address.province = v]
       \/ \E v \in PostalCodes : form' = [form EXCEPT !.address.postal_code = v]
    /\ UNCHANGED <<orders, orderItems, cartRows, guestCart, checkoutRuns>>
    /\ UNCHANGED <<validateVars, auditVars>>
    /\ UNCHANGED applyVars

\* GuestCheckoutForm.validateForm
validateForm(f) ==
    /\ ~IsBlank(f.customerInfo.full_name)
    /\ ~IsBlank(f.customerInfo.email)
    /\ ServerEmailPattern(f.customerInfo.email)
    /\ ~IsBlank(f.customerInfo.phone)
    /\ ~IsBlank(f.address.street_address)
    /\ ~IsBlank(f.address.city)
    /\ ~IsBlank(f.address.province)
    /\ ~IsBlank(f.address.postal_code)

\* products.find(p => p.id === item.product_id)?.price || 0
FoundPrice(products, productId) ==
    IF productId \in DOMAIN products THEN products[productId].price ELSE 0

\* The draft GuestCheckoutForm.handleCheckout hands to the validator
validationOrderData(f) ==
    [customerInfo |-> f.customerInfo,
     address |-> [street_address |-> f.address.street_address, city |-> f.address.city,
                  province |-> f.address.province, postal_code |-> f.address.postal_code,
                  phone |-> f.customerInfo.phone],
     cartItems |-> [i \in 1..Len(f.cartItems) |->
                       [product_id |-> f.cartItems[i].product_id,
                        quantity |-> f.cartItems[i].quantity,
                        price |-> FoundPrice(f.products, f.cartItems[i].product_id)]],
     deliveryMethod |-> f.deliveryMethod,
     deliveryFee |-> FormDeliveryFee(f),
     subtotal |-> f.subtotal,
     discountAmount |-> FormDiscountAmount(f),
     total |-> FormTotal(f)]

OrderRow(id, user, addressId, f, isGuest) ==
    [id |-> id, user_id |-> user, total_amount |-> FormTotal(f),
     delivery_fee |-> FormDeliveryFee(f), delivery_method |-> f.deliveryMethod,
     address_id |-> addressId, discount_amount |-> FormDiscountAmount(f),
     status |-> "pending", payment_status |-> "awaiting_payment",
     is_guest_order |-> isGuest]

Run(flow, validation, inserted) ==
    [flow |-> flow, validation |-> validation, inserted |-> inserted]

\* The statements of a handler's try block work on a record st: the rows of
\* orders and order_items, the cart, and whether an exception is on its way
\* to the catch block
TryBlock(cart) == [orders |-> orders, orderItems |-> orderItems, cart |-> cart, thrown |-> FALSE]

\* supabase.from("orders").insert(...).select().single(); throws on orderError
InsertOrder(st, row, orderError) ==
    IF st.thrown THEN st
    ELSE IF orderError THEN [st EXCEPT !.thrown = TRUE]
    ELSE [st EXCEPT !.orders = Append(@, row)]

\* cartItems.map(...) and supabase.from("order_items").insert(orderItems);
\* throws when the map does or on itemsError
InsertOrderItems(st, rows, fails) ==
    IF st.thrown THEN st
    ELSE IF fails THEN [st EXCEPT !.thrown = TRUE]
    ELSE [st EXCEPT !.orderItems = @ \o rows]

\* Mutant of ClearCart: the cart is cleared in a finally block
ClearCartInFinally(st, clearCartError) ==
    IF clearCartError THEN st ELSE [st EXCEPT !.cart = <<>>]

\* guestCartUtils.clearCart(), or the delete on cart_items whose error is
\* only logged
ClearCart(st, clearCartError) ==
    IF st.thrown \/ clearCartError THEN st ELSE [st EXCEPT !.cart = <<>>]

\* The order_items rows GuestCheckoutForm builds
GuestOrderItems(f, orderId) ==
    [i \in 1..Len(f.cartItems) |->
        [order_id |-> orderId,
         product_id |-> f.cartItems[i].product_id,
         quantity |-> f.cartItems[i].quantity,
         price |-> FoundPrice(f.products, f.cartItems[i].product_id)]]

\* What the try block leaves behind and what the handler then sets
GuestTryReturns(done, validationResult) ==
    /\ orders' = done.orders
    /\ orderItems' = done.orderItems
    /\ guestCart' = done.cart
    /\ checkoutRuns' = Append(checkoutRuns,
                              Run("guest", validationResult, Len(done.orders) > Len(orders)))
    /\ form' = IF done.thrown THEN form
               ELSE [form EXCEPT !.orderCreated = Len(done.orders),
                                 !.showWhatsAppMessages = TRUE]

\* GuestCheckoutForm.handleCheckout, from the click to the last state update
GuestHandleCheckout ==
    /\ FormOpen
    /\ form.flow = "guest"
    /\ Len(checkoutRuns) < MaxCheckouts
    /\ \E orderError \in BOOLEAN, itemsError \in BOOLEAN :
        LET draft == validationOrderData(form)
            validationResult == validateOrderClient(draft)
            orderId == Len(orders) + 1
        IN  IF ~validateForm(form) \/ form.isProcessing
            THEN /\ checkoutRuns' = Append(checkoutRuns, Run("guest", NoResult, FALSE))
                 /\ UNCHANGED <<form, orders, orderItems, guestCart>>
            ELSE IF ~validationResult.isValid
            THEN /\ checkoutRuns' =
                        Append(checkoutRuns, Run("guest", validationResult, FALSE))
                 /\ UNCHANGED <<form, orders, orderItems, guestCart>>
            ELSE GuestTryReturns(
                     ClearCart(
                         InsertOrderItems(
                             InsertOrder(TryBlock(guestCart),
                                         OrderRow(orderId, "null", "null", form, TRUE),
                                         orderError),
                             GuestOrderItems(form, orderId), itemsError),
                         FALSE),
                     validationResult)
    /\ UNCHANGED cartRows
    /\ UNCHANGED <<validateVars, auditVars>>
    /\ UNCHANGED applyVars

\* (item.products as any).price: the rows the page passes carry the product
\* under "product", so reading .price of item.products raises a TypeError
ItemProductsPriceThrows(item) == "products" \notin DOMAIN item

\* (item.products as any).price of a row that carries the join
ItemProductsPrice(item) ==
    IF ItemProductsPriceThrows(item) THEN 0 ELSE item.products.price

\* The order_items rows CheckoutForm builds
AuthOrderItems(f, orderId) ==
    [i \in 1..Len(f.cartItems) |->
        [order_id |-> orderId,
         product_id |-> f.cartItems[i].product_id,
         quantity |-> f.cartItems[i].quantity,
         price |-> ItemProductsPrice(f.cartItems[i])]]

AuthTryReturns(done) ==
    /\ orders' = done.orders
    /\ orderItems' = done.orderItems
    /\ cartRows' = done.cart
    /\ checkoutRuns' = Append(checkoutRuns,
                              Run("auth", NoResult, Len(done.orders) > Len(orders)))
    /\ form' = IF done.thrown THEN form
               ELSE [form EXCEPT !.orderCreated = Len(done.orders),
                                 !.showWhatsAppMessages = TRUE]

\* CheckoutForm.handleCheckout, from the click to the last state update
AuthHandleCheckout ==
    /\ FormOpen
    /\ form.flow = "auth"
    /\ Len(checkoutRuns) < MaxCheckouts
    /\ \E getUser \in {"user", "null", "error"}, orderError \in BOOLEAN,
          itemsError \in BOOLEAN, clearCartError \in BOOLEAN :
        LET orderId == Len(orders) + 1
            addressFound == \E i \in 1..Len(form.addresses) :
                                form.addresses[i].id = form.selectedAddress
            mapThrows == \E i \in 1..Len(form.cartItems) :
                             ItemProductsPriceThrows(form.cartItems[i])
        IN  IF form.selectedAddress = "undefined" \/ form.isProcessing
            THEN /\ checkoutRuns' = Append(checkoutRuns, Run("auth", NoResult, FALSE))
                 /\ UNCHANGED <<form, orders, orderItems, cartRows>>
            ELSE AuthTryReturns(
                     ClearCart(
                         InsertOrderItems(
                             InsertOrder(TryBlock(cartRows),
                                         OrderRow(orderId, env.sessionUser,
                                                  form.selectedAddress, form, FALSE),
                                         getUser # "user" \/ ~addressFound \/ orderError),
                             AuthOrderItems(form, orderId), mapThrows \/ itemsError),
                         clearCartError))
    /\ UNCHANGED guestCart
    /\ UNCHANGED <<validateVars, auditVars>>
    /\ UNCHANGED applyVars

NextCheckout ==
    \/ SetDeliveryMethod
    \/ UpdateCustomerInfo
    \/ UpdateAddress
    \/ GuestHandleCheckout
    \/ AuthHandleCheckout

SpecCheckout == InitCheckout /\ [][NextCheckout]_vars

(***************************************************************************)
(* Logger calls and UPDATE / DELETE attempts on the audit table            *)
(***************************************************************************)
MaxLoggerCalls == 2

FiveDigitPhone == <<"0", "8", "2", "1", "2">>

AuditDrafts ==
    {Draft(ValidGuest, <<>>, AmountFields("courier_guy", 9900, 0, <<>>, 9900)),
     Draft([ValidGuest EXCEPT !.customerInfo.phone = FiveDigitPhone,
                              !.address.phone = FiveDigitPhone,
                              !.customerInfo.email = <<"b", "a", "d">>],
           <<>>, AmountFields("courier_guy", 9900, 0, <<>>, 9900)),
     Draft(ValidAuth, <<[product_id |-> "prod-9", quantity |-> 1, price |-> 1000]>>,
           AmountFields("pudo", 6500, 1000, <<>>, 7500))}

AuditErrorLists ==
    {<<Err("cartItems", "Product with ID prod-9 not found", "PRODUCT_NOT_FOUND")>>,
     <<Err("total", "Order total exceeds maximum allowed amount of R10000",
           "EXCESSIVE_ORDER_VALUE"),
       Err("cartItems", "Quantity must be greater than 0", "INVALID_QUANTITY")>>,
     <<>>}

AuditWarningLists ==
    {<<>>,
     <<Warn("cartItems[0].quantity", "Large quantity order - please verify", "LARGE_QUANTITY")>>}

\* At most one thing fails inside one logger call
LoggerFaults ==
    {NoFaults,
     [NoFaults EXCEPT !.entry = TRUE],
     [NoFaults EXCEPT !.store = "error"],
     [NoFaults EXCEPT !.store = "raise"],
     [NoFaults EXCEPT !.alert = TRUE]}

\* A checkout page is open next to the logger: a guest's, or that of a
\* signed-in user with one item in the cart
InitAudit ==
    /\ orderData \in AuditDrafts
    /\ ran = "none"
    /\ clientResult = NoResult
    /\ dbValidation = NoResult
    /\ businessValidation = NoResult
    /\ orderResult = NoResult
    /\ remoteCalls = <<>>
    /\ \E user \in {IF IsAuth(orderData) THEN orderData.userId ELSE NoUser} :
        /\ env = [sessionUser |-> user, fault |-> NoFault]
        /\ cartRows = (IF user = NoUser THEN <<>> ELSE <<CartRow("cart-1", "prod-1", 2)>>)
        /\ form = CheckoutPage(user, cartRows)
    /\ guestCart = <<>>
    /\ orders = <<>>
    /\ orderItems = <<>>
    /\ checkoutRuns = <<>>
    /\ InitLogger
    /\ InitNoApply

LoggerState == [logs |-> auditLogs, alerts |-> alerts, thrown |-> FALSE, steps |-> <<>>]

\* What a logger call leaves behind
LoggerReturns(a, call) ==
    /\ auditLogs' = a.logs
    /\ alerts' = a.alerts
    /\ loggerOutcome' = Settled(a)
    /\ loggerCalls' = Append(loggerCalls, call)
    /\ UNCHANGED lastAttempt
    /\ UNCHANGED validateVars
    /\ UNCHANGED checkoutVars
    /\ UNCHANGED applyVars

CallLogValidationViolation ==
    /\ Len(loggerCalls) < MaxLoggerCalls
    /\ \E errors \in AuditErrorLists, faults \in LoggerFaults :
        LoggerReturns(logValidationViolation(LoggerState, orderData, errors, <<>>, faults),
                      [method |-> "logValidationViolation", orderData |-> orderData,
                       errors |-> errors])

CallLogValidationSuccess ==
    /\ Len(loggerCalls) < MaxLoggerCalls
    /\ \E warnings \in AuditWarningLists, faults \in LoggerFaults :
        LoggerReturns(logValidationSuccess(LoggerState, orderData, warnings, faults),
                      [method |-> "logValidationSuccess", orderData |-> orderData,
                       errors |-> warnings])

CallLogSuspiciousActivity ==
    /\ Len(loggerCalls) < MaxLoggerCalls
    /\ \E faults \in LoggerFaults :
        LoggerReturns(logSuspiciousActivity(LoggerState, "Unusually high quantity order",
                                            orderData, <<"quantity", "100">>, faults),
                      [method |-> "logSuspiciousActivity", orderData |-> orderData,
                       errors |-> <<>>])

\* Any database client tries to change a row of order_audit_logs
AttemptUpdate ==
    /\ \E id \in 1..MaxLoggerCalls, severity \in {"low", "critical"} :
        auditLogs' = UpdateRows(auditLogs, id, severity)
    /\ lastAttempt' = "update"
    /\ UNCHANGED <<loggerCalls, alerts, loggerOutcome>>
    /\ UNCHANGED validateVars
    /\ UNCHANGED checkoutVars
    /\ UNCHANGED applyVars

\* Any database client tries to delete a row of order_audit_logs
AttemptDelete ==
    /\ \E id \in 1..MaxLoggerCalls :
        auditLogs' = DeleteRows(auditLogs, id)
    /\ lastAttempt' = "delete"
    /\ UNCHANGED <<loggerCalls, alerts, loggerOutcome>>
    /\ UNCHANGED validateVars
    /\ UNCHANGED checkoutVars
    /\ UNCHANGED applyVars

NextAudit ==
    \/ CallLogValidationViolation
    \/ CallLogValidationSuccess
    \/ CallLogSuspiciousActivity
    \/ AttemptUpdate
    \/ AttemptDelete
    \/ GuestHandleCheckout
    \/ AuthHandleCheckout

SpecAudit == InitAudit /\ [][NextAudit]_vars

(***************************************************************************)
(* Claims about the audit logger, checked under SpecAudit                  *)
(***************************************************************************)
\* C9: logValidationViolation, logValidationSuccess and logSuspiciousActivity
\* always resolve, whatever fails inside them, and leave the caller's draft,
\* validation results, checkout form and order tables unchanged.
C9_LoggingNeverThrows ==
    [][loggerCalls' # loggerCalls =>
          /\ loggerOutcome' = "resolved"
          /\ UNCHANGED validateVars
          /\ UNCHANGED checkoutVars
          /\ UNCHANGED applyVars]_vars

\* C9 witness: a logger call resolved although sanitizing the draft threw
C9_Witness ==
    /\ Len(loggerCalls) > 0
    /\ sanitizeThrows(orderData)
    /\ loggerOutcome = "resolved"

MaxErrors == 2

\* The codes of the three tiers and two codes of no tier
SeverityCodes ==
    criticalCodes \cup highCodes \cup mediumCodes
        \cup {"INVALID_EMAIL_FORMAT", "EXCESSIVE_ORDER_VALUE"}

SeverityErrorLists ==
    UNION {[1..n -> {Err("system", "", c) : c \in SeverityCodes}] : n \in 0..MaxErrors}

Descriptions == {"Unusually high quantity order", ""}

EmptyLogger == [logs |-> <<>>, alerts |-> <<>>, thrown |-> FALSE, steps |-> <<>>]

\* The logger before the call: nothing logged yet, or one critical violation
\* logged and reported
LoggersBefore ==
    {EmptyLogger,
     [logValidationViolation(EmptyLogger,
                             Draft(ValidAuth, <<>>, AmountFields("pudo", 6500, 0, <<>>, 6500)),
                             <<Err("cartItems", "Cart is empty", "CART_EMPTY")>>, <<>>, NoFaults)
         EXCEPT !.steps = <<>>]}

\* Error lists of each severity: critical, high, medium and low
ViolationErrorLists ==
    AuditErrorLists
    \cup {<<Err("cartItems", "Dress is out of stock", "PRODUCT_OUT_OF_STOCK")>>,
          <<Err("deliveryMethod", "Invalid delivery method", "INVALID_DELIVERY_METHOD"),
            Err("cartItems", "Cart is empty", "CART_EMPTY")>>}

MaxPhoneLen == 8

\* Phones of every length up to MaxPhoneLen
PhoneTexts ==
    {[i \in 1..n |-> ToString((k * i) % 10)] : n \in 0..MaxPhoneLen, k \in {1, 7}}

MaxLocalLen == 4

LocalParts == {SubSeq(<<"j", "o", "h", "n", "s", "m", "i", "t", "h">>, 1, n) : n \in 0..MaxLocalLen}

\* Emails local@domain, and the emails of the drafts
EmailTexts ==
    {local \o <<"@">> \o domain :
        local \in LocalParts, domain \in {<<"x", ".", "c", "o", "m">>, <<"b", ".", "c">>}}
    \cup Emails

Arguments ==
    [fn : {"determineSeverity"}, errors : SeverityErrorLists]
    \cup [fn : {"maskPhone"}, phone : PhoneTexts]
    \cup [fn : {"maskEmail"}, email : EmailTexts]
    \cup [fn : {"logValidationViolation"}, orderData : AuditDrafts,
          errors : ViolationErrorLists, faults : LoggerFaults, before : LoggersBefore]
    \cup [fn : {"logSuspiciousActivity"}, description : Descriptions,
          orderData : AuditDrafts, context : {<<>>, <<"quantity", "100">>},
          faults : LoggerFaults, before : LoggersBefore]
    \cup [fn : {"logValidationSuccess"}, orderData : AuditDrafts,
          warnings : AuditWarningLists, faults : LoggerFaults, before : LoggersBefore]

Returns(value) == [threw |-> FALSE, value |-> value]

Throws == [threw |-> TRUE]

InitApply ==
    /\ argument \in Arguments
    /\ returned = NoResult
    /\ orderData = NoResult
    /\ ran = "none"
    /\ clientResult = NoResult
    /\ dbValidation = NoResult
    /\ businessValidation = NoResult
    /\ orderResult = NoResult
    /\ remoteCalls = <<>>
    /\ env = [sessionUser |-> NoUser, fault |-> NoFault]
    /\ InitLogger
    /\ InitNoCheckout

Applied(fn) == argument.fn = fn /\ returned # NoResult

ApplyReturns(result) ==
    /\ returned' = result
    /\ UNCHANGED argument
    /\ UNCHANGED validateVars
    /\ UNCHANGED auditVars
    /\ UNCHANGED checkoutVars

ApplyDetermineSeverity ==
    /\ argument.fn = "determineSeverity"
    /\ returned = NoResult
    /\ ApplyReturns(Returns(determineSeverity(argument.errors)))

ApplyLogValidationViolation ==
    /\ argument.fn = "logValidationViolation"
    /\ returned = NoResult
    /\ ApplyReturns(Returns(logValidationViolation(argument.before, argument.orderData,
                                                   argument.errors, <<>>, argument.faults)))

ApplyLogSuspiciousActivity ==
    /\ argument.fn = "logSuspiciousActivity"
    /\ returned = NoResult
    /\ ApplyReturns(Returns(logSuspiciousActivity(argument.before, argument.description,
                                                  argument.orderData, argument.context,
                                                  argument.faults)))

ApplyLogValidationSuccess ==
    /\ argument.fn = "logValidationSuccess"
    /\ returned = NoResult
    /\ ApplyReturns(Returns(logValidationSuccess(argument.before, argument.orderData,
                                                 argument.warnings, argument.faults)))

ApplyMaskPhone ==
    /\ argument.fn = "maskPhone"
    /\ returned = NoResult
    /\ ApplyReturns(IF maskPhoneThrows(argument.phone)
                    THEN Throws
                    ELSE Returns(maskPhone(argument.phone)))

ApplyMaskEmail ==
    /\ argument.fn = "maskEmail"
    /\ returned = NoResult
    /\ ApplyReturns(Returns(maskEmail(argument.email)))

NextApply ==
    \/ ApplyDetermineSeverity
    \/ ApplyMaskPhone
    \/ ApplyMaskEmail
    \/ ApplyLogValidationViolation
    \/ ApplyLogSuspiciousActivity
    \/ ApplyLogValidationSuccess

SpecApply == InitApply /\ [][NextApply]_vars

(***************************************************************************)
(* Claims about the logger's functions, checked under SpecApply            *)
(***************************************************************************)
ArgumentCodes == {argument.errors[i].code : i \in 1..Len(argument.errors)}

\* C11: for every error list determineSeverity returns critical if a code of
\* the list is in the critical tier, else high if one is in the high tier,
\* else medium if one is in the medium tier, else low, wherever in the list
\* the codes stand.
C11_SeverityTierOrdered ==
    Applied("determineSeverity") =>
        /\ ~returned.threw
        /\ returned.value =
               (IF ArgumentCodes \cap criticalCodes # {} THEN "critical"
                ELSE IF ArgumentCodes \cap highCodes # {} THEN "high"
                ELSE IF ArgumentCodes \cap mediumCodes # {} THEN "medium"
                ELSE "low")

\* C11 witness: a list with a high-tier code in front of a critical-tier
\* code was classified critical
C11_Witness ==
    /\ Applied("determineSeverity")
    /\ Len(argument.errors) = 2
    /\ argument.errors[1].code \in highCodes
    /\ argument.errors[2].code \in criticalCodes
    /\ returned.value = "critical"

\* The rows and the alerts a logging method added to what was there before
Before == argument.before

After == returned.value

StoreUnchanged == After.logs = Before.logs

OneRowAdded ==
    /\ Len(After.logs) = Len(Before.logs) + 1
    /\ SubSeq(After.logs, 1, Len(Before.logs)) = Before.logs

NewRow == After.logs[Len(After.logs)]

AlertsUnchanged == After.alerts = Before.alerts

OneAlertAdded ==
    /\ Len(After.alerts) = Len(Before.alerts) + 1
    /\ SubSeq(After.alerts, 1, Len(Before.alerts)) = Before.alerts

\* Building the entry went through: the runtime has a navigator and no phone
\* of a guest draft has exactly five characters
EntryBuilt ==
    /\ ~argument.faults.entry
    /\ IsGuest(argument.orderData) =>
           /\ Len(argument.orderData.customerInfo.phone) # 5
           /\ Len(argument.orderData.address.phone) # 5

SuspiciousRow(row) ==
    /\ row.event_type = "suspicious_activity"
    /\ row.severity = "high"
    /\ Len(row.validation_errors) = 1
    /\ row.validation_errors[1].code = "SUSPICIOUS_ACTIVITY"
    /\ row.validation_errors[1].message = argument.description

\* C12: for every description and draft, and with nothing failing around the
\* logger, logSuspiciousActivity persists exactly one suspicious_activity
\* entry of severity high with a single error of code SUSPICIOUS_ACTIVITY,
\* and reports through the critical-alert path.
C12_AlwaysPersistsAndAlerts ==
    Applied("logSuspiciousActivity") /\ argument.faults = NoFaults =>
        /\ OneRowAdded
        /\ SuspiciousRow(NewRow)
        /\ OneAlertAdded

\* What logSuspiciousActivity does in every case: when the entry is built and
\* the insert succeeds it persists exactly one suspicious_activity entry of
\* severity high with the single error SUSPICIOUS_ACTIVITY, otherwise it
\* persists nothing; the critical alert is reported once whenever the entry
\* is built and console.error does not fail, also when the insert failed,
\* and not at all when building the entry threw.
LogSuspiciousActivityEffect ==
    Applied("logSuspiciousActivity") =>
        /\ ~After.thrown
        /\ IF EntryBuilt /\ argument.faults.store = "ok"
           THEN OneRowAdded /\ SuspiciousRow(NewRow)
           ELSE StoreUnchanged
        /\ IF EntryBuilt /\ ~argument.faults.alert
           THEN /\ OneAlertAdded
                /\ After.alerts[Len(After.alerts)].event_type = "suspicious_activity"
                /\ After.alerts[Len(After.alerts)].severity = "high"
           ELSE AlertsUnchanged

\* C13: with nothing failing around the logger, logValidationSuccess
\* persists exactly one entry of severity low and event type
\* validation_warning when the warnings are non-empty, and leaves rows and
\* alerts as they were when they are empty.
C13_PersistsIffWarnings ==
    Applied("logValidationSuccess") /\ argument.faults = NoFaults =>
        /\ AlertsUnchanged
        /\ IF Len(argument.warnings) > 0
           THEN /\ OneRowAdded
                /\ NewRow.severity = "low"
                /\ NewRow.event_type = "validation_warning"
           ELSE StoreUnchanged

\* What logValidationSuccess does in every case: it never reports an alert;
\* with non-empty warnings, an entry that is built and an insert that
\* succeeds it persists exactly one entry, of severity low and event type
\* validation_warning, carrying the warnings; with empty warnings, or when
\* building the entry or the insert fails, the rows stay as they were.
LogValidationSuccessEffect ==
    Applied("logValidationSuccess") =>
        /\ ~After.thrown
        /\ AlertsUnchanged
        /\ IF Len(argument.warnings) > 0 /\ EntryBuilt /\ argument.faults.store = "ok"
           THEN /\ OneRowAdded
                /\ NewRow.severity = "low"
                /\ NewRow.event_type = "validation_warning"
                /\ NewRow.validation_errors = argument.warnings
           ELSE StoreUnchanged

\* C19: for every phone longer than 4 characters maskPhone returns a string
\* of the same length that shows the first three and the last three
\* characters and an asterisk in every place between them; a phone of 4
\* characters or fewer is returned unchanged.
C19_PhoneMasked ==
    Applied("maskPhone") =>
        /\ ~returned.threw
        /\ IF Len(argument.phone) > 4
           THEN /\ Len(returned.value) = Len(argument.phone)
                /\ \A k \in 1..Len(argument.phone) :
                       returned.value[k] =
                           (IF k <= 3 \/ k > Len(argument.phone) - 3
                            THEN argument.phone[k] ELSE "*")
           ELSE returned.value = argument.phone

\* The places of "@" in the email
AtPlaces == {k \in 1..Len(argument.email) : argument.email[k] = "@"}

\* C20: for every email local@domain maskEmail returns the first two
\* characters of local, one asterisk for each further character of local,
\* then "@" and the domain unchanged.
C20_EmailMasked ==
    Applied("maskEmail") /\ Cardinality(AtPlaces) = 1 =>
        /\ ~returned.threw
        /\ Len(returned.value) = Len(argument.email)
        /\ \A k \in 1..Len(argument.email), at \in AtPlaces :
               returned.value[k] =
                   (IF k >= at \/ k <= 2 THEN argument.email[k] ELSE "*")

\* C20 witness: john@x.com was masked to jo**@x.com
C20_Witness ==
    /\ Applied("maskEmail")
    /\ argument.email = <<"j", "o", "h", "n", "@", "x", ".", "c", "o", "m">>
    /\ returned.value = <<"j", "o", "*", "*", "@", "x", ".", "c", "o", "m">>

\* The private method name ran inside the applied call
StepRan(name) == \E k \in 1..Len(After.steps) : After.steps[k] = name

\* The alert path ran, after storeAuditLog had run to its end
AlertAfterStore == After.steps = <<"storeAuditLog", "sendCriticalAlert">>

\* C21: within logValidationViolation, with nothing failing around the
\* logger, the critical-alert path runs exactly when the classified severity
\* is critical, and only after the persistence attempt has completed; for
\* high, medium and low severities no alert is raised.
C21_AlertIffCritical ==
    Applied("logValidationViolation") /\ argument.faults = NoFaults =>
        /\ StepRan("sendCriticalAlert") <=> determineSeverity(argument.errors) = "critical"
        /\ StepRan("sendCriticalAlert") => AlertAfterStore
        /\ determineSeverity(argument.errors) # "critical" => AlertsUnchanged

\* What logValidationViolation does in every case: the alert path runs
\* exactly when the severity is critical and the entry was built, always
\* after storeAuditLog has run to its end, whether or not the insert
\* succeeded; an alert is reported when the path runs and console.error does
\* not fail; a row is persisted when the entry was built and the insert
\* succeeded.
LogValidationViolationEffect ==
    Applied("logValidationViolation") =>
        /\ ~After.thrown
        /\ StepRan("sendCriticalAlert")
               <=> (determineSeverity(argument.errors) = "critical" /\ EntryBuilt)
        /\ StepRan("sendCriticalAlert") => AlertAfterStore
        /\ StepRan("storeAuditLog") <=> EntryBuilt
        /\ IF StepRan("sendCriticalAlert") /\ ~argument.faults.alert
           THEN OneAlertAdded ELSE AlertsUnchanged
        /\ IF EntryBuilt /\ argument.faults.store = "ok"
           THEN OneRowAdded /\ NewRow.severity = determineSeverity(argument.errors)
           ELSE StoreUnchanged

\* The severity the logger gives the errors of a validator's result
ResultSeverity(result) == determineSeverity(result.errors)

\* C25: the errors the validators emit are in the logger's tiers: a
\* rejection of an empty cart by validateOrder or by the client validator,
\* and a rejection of a mismatching total by validateOrder, is classified
\* critical; a rejection for insufficient stock or an invalid discount is
\* classified high or, next to a critical error, critical.
C25_ValidatorCodesAreTiered ==
    /\ (ran = "client" /\ HasCode(clientResult.errors, "EMPTY_CART"))
           => ResultSeverity(clientResult) = "critical"
    /\ ran = "order" =>
           /\ Len(orderData.cartItems) = 0 => ResultSeverity(orderResult) = "critical"
           /\ HasCode(orderResult.errors, "TOTAL_CALCULATION_ERROR")
                  => ResultSeverity(orderResult) = "critical"
           /\ (\/ HasCode(orderResult.errors, "INSUFFICIENT_STOCK")
               \/ HasCode(orderResult.errors, "INVALID_DISCOUNT"))
                  => ResultSeverity(orderResult) \in {"high", "critical"}


StoredCartReady ==
    /\ Len(guestCart) > 0
    /\ \A i \in 1..Len(guestCart) : guestCart[i].quantity > 0

\* C26: when a guest whose stored cart holds at least one item, all of
\* positive quantity, submits complete and well-formed contact and address
\* fields, the draft handed to validation holds the items of the stored cart
\* and the run passes validation, so that an order is created once the
\* database accepts the inserts.
C26_GuestCheckoutCanSucceed ==
    [][(/\ form.flow = "guest"
        /\ validateForm(form)
        /\ ~form.isProcessing
        /\ StoredCartReady
        /\ Len(checkoutRuns') = Len(checkoutRuns) + 1)
       => /\ Len(validationOrderData(form).cartItems) = Len(guestCart)
          /\ checkoutRuns'[Len(checkoutRuns')].validation # NoResult
          /\ checkoutRuns'[Len(checkoutRuns')].validation.isValid]_vars

\* C27: between checkout attempts every persisted order row has order_items
\* rows carrying its id; an attempt whose order_items insert failed leaves no
\* order row behind.
C27_NoOrphanOrders ==
    \A i \in 1..Len(orders) :
        \E j \in 1..Len(orderItems) : orderItems[j].order_id = orders[i].id

\* C1: in both checkout flows an order row is inserted only by a run that
\* invoked the validator on the draft and got isValid = TRUE.
C1_OrderOnlyAfterValidation ==
    \A i \in 1..Len(checkoutRuns) :
        checkoutRuns[i].inserted =>
            /\ checkoutRuns[i].validation # NoResult
            /\ checkoutRuns[i].validation.isValid

(***************************************************************************)
(* The guest cart in localStorage: guestCartUtils                          *)
(***************************************************************************)
MaxQuantity == 2

\* What the product page can put in the cart: a product in a size and colour
Combinations ==
    {[product_id |-> "prod-1", size |-> "M", color |-> "Black"],
     [product_id |-> "prod-1", size |-> "M", color |-> "White"],
     [product_id |-> "prod-2", size |-> "M", color |-> "Black"]}

\* AddToCartForm passes its quantity state, which starts at 1 and never drops
\* below it
AddQuantities == {1, 2}

\* What `guest_${Date.now()}_${Math.random()...}` can evaluate to
GuestItemIds == {"guest_1", "guest_2"}

\* The quantities the callers can hand to updateQuantity
UpdateQuantities == (0 - 1)..MaxQuantity

NewItems ==
    {[product_id |-> c.product_id, size |-> c.size, color |-> c.color, quantity |-> q] :
        c \in Combinations, q \in AddQuantities}

SameCombination(cartItem, item) ==
    /\ cartItem.product_id = item.product_id
    /\ cartItem.size = item.size
    /\ cartItem.color = item.color

\* cart.findIndex(...): the first index whose entry has the item's
\* combination, 0 for the -1 of the source
FindCombination(cart, item) ==
    IF \E i \in 1..Len(cart) : SameCombination(cart[i], item)
    THEN CHOOSE i \in 1..Len(cart) :
            /\ SameCombination(cart[i], item)
            /\ \A j \in 1..(i - 1) : ~SameCombination(cart[j], item)
    ELSE 0

\* cart.findIndex(item => item.id === itemId)
FindId(cart, itemId) ==
    IF \E i \in 1..Len(cart) : cart[i].id = itemId
    THEN CHOOSE i \in 1..Len(cart) :
            /\ cart[i].id = itemId
            /\ \A j \in 1..(i - 1) : cart[j].id # itemId
    ELSE 0

\* cart.splice(index, 1)
Splice(cart, index) == [i \in 1..(Len(cart) - 1) |-> IF i < index THEN cart[i] ELSE cart[i + 1]]

\* cart.filter(item => item.id !== itemId)
RECURSIVE FilterId(_, _)
FilterId(cart, itemId) ==
    IF cart = <<>> THEN <<>>
    ELSE IF Head(cart).id # itemId
         THEN <<Head(cart)>> \o FilterId(Tail(cart), itemId)
         ELSE FilterId(Tail(cart), itemId)

\* getCart: what JSON.parse gives for the stored text; an absent key and a
\* stored empty array both read as the empty cart
getCart(stored) == stored

\* saveCart: setItem replaces the stored cart, unless it throws (the quota is
\* exceeded), which is caught and logged
saveCart(stored, cart, saveFails) == IF saveFails THEN stored ELSE cart

\* Mutant of addItem: every call pushes a new entry
addItemAlwaysPushes(stored, item, id, saveFails) ==
    saveCart(stored,
             Append(getCart(stored),
                    [id |-> id, product_id |-> item.product_id, quantity |-> item.quantity,
                     size |-> item.size, color |-> item.color]),
             saveFails)

addItem(stored, item, id, saveFails) ==
    saveCart(stored,
             IF FindCombination(getCart(stored), item) > 0
             THEN [getCart(stored) EXCEPT ![FindCombination(getCart(stored), item)].quantity =
                                              @ + item.quantity]
             ELSE Append(getCart(stored),
                         [id |-> id, product_id |-> item.product_id,
                          quantity |-> item.quantity, size |-> item.size,
                          color |-> item.color]),
             saveFails)

updateQuantity(stored, itemId, quantity, saveFails) ==
    IF FindId(getCart(stored), itemId) > 0
    THEN saveCart(stored,
                  IF quantity <= 0
                  THEN Splice(getCart(stored), FindId(getCart(stored), itemId))
                  ELSE [getCart(stored) EXCEPT ![FindId(getCart(stored), itemId)].quantity =
                                                   quantity],
                  saveFails)
    ELSE stored

removeItem(stored, itemId, saveFails) ==
    saveCart(stored, FilterId(getCart(stored), itemId), saveFails)

\* localStorage.removeItem(GUEST_CART_KEY)
clearCart(stored) == <<>>

\* A browser of a guest with nothing in the cart
InitGuestCart ==
    /\ orderData = NoResult
    /\ ran = "none"
    /\ clientResult = NoResult
    /\ dbValidation = NoResult
    /\ businessValidation = NoResult
    /\ orderResult = NoResult
    /\ remoteCalls = <<>>
    /\ env = [sessionUser |-> NoUser, fault |-> NoFault]
    /\ InitLogger
    /\ InitNoCheckout
    /\ InitNoApply

GuestCartCalled(call, cart) ==
    /\ guestCart' = cart
    /\ argument' = call
    /\ returned' = Returns("undefined")
    /\ UNCHANGED <<form, orders, orderItems, cartRows, checkoutRuns>>
    /\ UNCHANGED validateVars
    /\ UNCHANGED auditVars

WithinMaxQuantity(cart) == \A i \in 1..Len(cart) : cart[i].quantity <= MaxQuantity

CallAddItem ==
    \E item \in NewItems, id \in GuestItemIds, saveFails \in BOOLEAN :
        /\ WithinMaxQuantity(addItem(guestCart, item, id, saveFails))
        /\ GuestCartCalled([fn |-> "addItem", item |-> item],
                           addItem(guestCart, item, id, saveFails))

CallUpdateQuantity ==
    \E itemId \in GuestItemIds, quantity \in UpdateQuantities, saveFails \in BOOLEAN :
        GuestCartCalled([fn |-> "updateQuantity", itemId |-> itemId, quantity |-> quantity],
                        updateQuantity(guestCart, itemId, quantity, saveFails))

CallRemoveItem ==
    \E itemId \in GuestItemIds, saveFails \in BOOLEAN :
        GuestCartCalled([fn |-> "removeItem", itemId |-> itemId],
                        removeItem(guestCart, itemId, saveFails))

CallClearCart == GuestCartCalled([fn |-> "clearCart"], clearCart(guestCart))

NextGuestCart ==
    \/ CallAddItem
    \/ CallUpdateQuantity
    \/ CallRemoveItem
    \/ CallClearCart

SpecGuestCart == InitGuestCart /\ [][NextGuestCart]_vars

(***************************************************************************)
(* Claims about the guest cart, checked under SpecGuestCart                *)
(***************************************************************************)
\* C28: starting from an empty cart, after any sequence of addItem (with
\* quantity at least 1), updateQuantity, removeItem and clearCart, no two
\* entries of the guest cart share product_id, size and color, and every
\* entry has quantity at least 1.
C28_GuestCartWellFormed ==
    /\ \A i, j \in 1..Len(guestCart) :
          i # j => ~SameCombination(guestCart[i], guestCart[j])
    /\ \A i \in 1..Len(guestCart) : guestCart[i].quantity >= 1

\* addItem met an entry of its combination and added to its quantity, next to
\* another entry
C28_Witness ==
    /\ argument # NoResult
    /\ argument.fn = "addItem"
    /\ Len(guestCart) = 2
    /\ \E i \in 1..Len(guestCart) :
          /\ SameCombination(guestCart[i], argument.item)
          /\ guestCart[i].quantity > argument.item.quantity

\* updateQuantity with a quantity of 0 or less removes the entry it names and
\* with a positive one sets it; removeItem leaves no entry of the id
UpdateQuantityEffect ==
    [][(guestCart' # guestCart /\ argument'.fn = "updateQuantity")
          => IF argument'.quantity <= 0
             THEN /\ Len(guestCart') = Len(guestCart) - 1
                  /\ guestCart' = Splice(guestCart, FindId(guestCart, argument'.itemId))
             ELSE /\ Len(guestCart') = Len(guestCart)
                  /\ guestCart'[FindId(guestCart, argument'.itemId)].quantity =
                         argument'.quantity]_vars

(***************************************************************************)
(* migrateGuestCartToUser: the guest cart moves to cart_items at sign-in   *)
(***************************************************************************)
MaxUserQuantity == 4
MaxUserRows == 3

\* A row of cart_items
CartItemsRow(id, userId, item, quantity) ==
    [id |-> id, user_id |-> userId, product_id |-> item.product_id,
     quantity |-> quantity, size |-> item.size, color |-> item.color]

GuestEntry(id, c, quantity) ==
    [id |-> id, product_id |-> c.product_id, quantity |-> quantity,
     size |-> c.size, color |-> c.color]

\* Guest carts guestCartUtils can have stored: one or two entries of
\* different combinations, each of quantity at least 1
GuestCartsToMigrate ==
    {<<GuestEntry("guest_1", c, q)>> : c \in Combinations, q \in AddQuantities}
    \cup {<<GuestEntry("guest_1", c[1], q[1]), GuestEntry("guest_2", c[2], q[2])>> :
             c \in {d \in Combinations \X Combinations : d[1] # d[2]},
             q \in AddQuantities \X AddQuantities}

\* What cart_items holds for the user before the first migration
UserCartsBefore ==
    {<<>>,
     <<CartItemsRow(1, "user-123", [product_id |-> "prod-1", size |-> "M", color |-> "Black"], 1)>>,
     <<CartItemsRow(1, "user-123", [product_id |-> "prod-2", size |-> "M", color |-> "Black"], 2)>>}

\* What can go wrong in one run: the import or createClient raises (at 0),
\* or for the guest item at `at` the select returns an error, the update or
\* insert returns an error, or a call raises
MigrateFaults(cart) ==
    {NoFault, [at |-> 0, mode |-> "raise"]}
    \cup [at : 1..Len(cart), mode : {"select-error", "write-error", "raise"}]

FaultAt(fault, i, mode) == fault.at = i /\ fault.mode = mode

MatchingRows(rows, userId, item) ==
    {k \in 1..Len(rows) : rows[k].user_id = userId /\ SameCombination(rows[k], item)}

\* .select('*')...single(): the index of the one matching row; 0 for the null
\* that an error, no row or several rows give
ExistingItem(rows, userId, item, selectFails) ==
    IF selectFails \/ Cardinality(MatchingRows(rows, userId, item)) # 1
    THEN 0
    ELSE CHOOSE k \in MatchingRows(rows, userId, item) : TRUE

\* The update of the existing row or the insert of a new one; the error a
\* write returns is not looked at
WriteItem(st, userId, item, existing, writeFails) ==
    IF writeFails THEN st
    ELSE IF existing > 0
    THEN [st EXCEPT !.rows[existing].quantity = @ + item.quantity]
    ELSE [st EXCEPT !.rows = Append(@, CartItemsRow(Len(@) + 1, userId, item, item.quantity))]

\* One turn of the loop over the guest cart
MigrateItem(st, userId, item, i, fault) ==
    IF st.thrown THEN st
    ELSE IF FaultAt(fault, i, "raise") THEN [st EXCEPT !.thrown = TRUE]
    ELSE WriteItem(st, userId, item,
                   ExistingItem(st.rows, userId, item, FaultAt(fault, i, "select-error")),
                   FaultAt(fault, i, "write-error"))

RECURSIVE MigrateItems(_, _, _, _, _)
MigrateItems(st, userId, cart, i, fault) ==
    IF i > Len(cart) THEN st
    ELSE MigrateItems(MigrateItem(st, userId, cart[i], i, fault), userId, cart, i + 1, fault)

\* After the loop the guest cart is cleared, unless the catch block was
\* entered
MigrateDone(stored, done) ==
    [rows |-> done.rows, guestCart |-> IF done.thrown THEN stored ELSE clearCart(stored)]

migrateGuestCartToUser(stored, rows, userId, fault) ==
    IF Len(getCart(stored)) = 0 \/ FaultAt(fault, 0, "raise")
    THEN [rows |-> rows, guestCart |-> stored]
    ELSE MigrateDone(stored,
                     MigrateItems([rows |-> rows, thrown |-> FALSE], userId,
                                  getCart(stored), 1, fault))

MigrateArguments ==
    [fn : {"migrateGuestCartToUser"}, userId : {"user-123"},
     guestCart : GuestCartsToMigrate, cartItems : UserCartsBefore]

\* A guest with a stored cart signs in as a user with rows in cart_items
InitMigrate ==
    /\ argument \in MigrateArguments
    /\ returned = NoResult
    /\ guestCart = argument.guestCart
    /\ cartRows = argument.cartItems
    /\ form = NoForm
    /\ orders = <<>>
    /\ orderItems = <<>>
    /\ checkoutRuns = <<>>
    /\ orderData = NoResult
    /\ ran = "none"
    /\ clientResult = NoResult
    /\ dbValidation = NoResult
    /\ businessValidation = NoResult
    /\ orderResult = NoResult
    /\ remoteCalls = <<>>
    /\ env = [sessionUser |-> argument.userId, fault |-> NoFault]
    /\ InitLogger

WithinUserBounds(rows) ==
    /\ Len(rows) <= MaxUserRows
    /\ \A k \in 1..Len(rows) : rows[k].quantity <= MaxUserQuantity

Migrated(result) ==
    /\ WithinUserBounds(result.rows)
    /\ cartRows' = result.rows
    /\ guestCart' = result.guestCart
    /\ returned' = Returns("undefined")
    /\ UNCHANGED <<argument, form, orders, orderItems, checkoutRuns>>
    /\ UNCHANGED validateVars
    /\ UNCHANGED auditVars

\* The sign-in runs the migration; a run that failed can be followed by
\* another one
CallMigrateGuestCartToUser ==
    \E fault \in MigrateFaults(guestCart) :
        Migrated(migrateGuestCartToUser(guestCart, cartRows, argument.userId, fault))

NextMigrate == CallMigrateGuestCartToUser

SpecMigrate == InitMigrate /\ [][NextMigrate]_vars

(***************************************************************************)
(* Claims about the migration, checked under SpecMigrate                   *)
(***************************************************************************)
RECURSIVE TotalQuantity(_, _)
TotalQuantity(rows, c) ==
    IF rows = <<>> THEN 0
    ELSE (IF SameCombination(Head(rows), c) THEN Head(rows).quantity ELSE 0)
         + TotalQuantity(Tail(rows), c)

\* C29: once migrateGuestCartToUser has cleared the guest cart, the user's
\* cart holds for every product_id, size and color its quantity before the
\* migration plus the guest cart's quantity, whatever write failed and however
\* many failed runs came first.
C29_MigrationConservesQuantities ==
    (returned # NoResult /\ guestCart = <<>>) =>
        \A c \in Combinations :
            TotalQuantity(cartRows, c) =
                TotalQuantity(argument.cartItems, c) + TotalQuantity(argument.guestCart, c)

\* What the fault-free first run does: every guest quantity is added and the
\* guest cart is cleared
MigrationEffect ==
    [][(returned = NoResult /\ guestCart' = <<>>
        /\ cartRows' = migrateGuestCartToUser(guestCart, cartRows, argument.userId, NoFault).rows)
       => \A c \in Combinations :
             TotalQuantity(cartRows', c) =
                 TotalQuantity(cartRows, c) + TotalQuantity(guestCart, c)]_vars

(***************************************************************************)
(* The Yoco webhook: POST /api/yoco/webhook                                *)
(***************************************************************************)
\* createHmac('sha256', key).update(JSON.stringify(body)).digest('hex'): one
\* value for each key and body, different for different ones
Hmac(key, body) == [hmac |-> [key |-> key, body |-> body]]

WebhookEvents == {"checkout.completed", "payment.succeeded", "payment.failed"}

\* metadata.order_id of the event: an order of the table, an id no order has,
\* or 0 for none
WebhookOrderIds == {0, 1, 2, 7}

WebhookBodies ==
    [event : WebhookEvents, checkoutId : {"ch_1"}, orderId : WebhookOrderIds]

\* The x-yoco-signature header as the parts of its text; <<>> is the absent
\* or empty header
SignatureHeaders(body) ==
    {<<>>,
     <<Hmac("whsec_live", body)>>,
     <<[text |-> "v1="], Hmac("whsec_live", body)>>,
     <<Hmac("whsec_guess", body)>>,
     <<Hmac("whsec_live", [body EXCEPT !.checkoutId = "ch_0"])>>}

WebhookSecrets == {"undefined", "whsec_live"}

\* signature.includes(expectedSignature)
Includes(signature, expected) == \E i \in 1..Len(signature) : signature[i] = expected

\* The request passes lines 19 to 29: it is rejected only when a secret and a
\* signature are both there and the signature does not hold the digest
PassesSignatureCheck(request, webhookSecret) ==
    (webhookSecret # "undefined" /\ Len(request.signature) > 0)
        => Includes(request.signature, Hmac(webhookSecret, request.body))

PaidOrder(row, checkoutId) ==
    [row EXCEPT !.payment_reference = checkoutId, !.payment_status = "paid",
                !.status = "processing"]

\* .update({...}).eq("id", orderId)
UpdateOrderPaid(rows, orderId, checkoutId) ==
    [i \in 1..Len(rows) |-> IF rows[i].id = orderId THEN PaidOrder(rows[i], checkoutId)
                            ELSE rows[i]]

\* .select("user_id").eq("id", orderId).single(): the user_id of the order,
\* "none" when no row has the id
OrderUserId(rows, orderId) ==
    IF \E i \in 1..Len(rows) : rows[i].id = orderId
    THEN (CHOOSE r \in {rows[i] : i \in 1..Len(rows)} : r.id = orderId).user_id
    ELSE "none"

\* .from("cart_items").delete().eq("user_id", userId); no row has the
\* user_id of a guest order
RECURSIVE DeleteCartOf(_, _)
DeleteCartOf(rows, userId) ==
    IF rows = <<>> THEN <<>>
    ELSE IF Head(rows).user_id = userId
         THEN DeleteCartOf(Tail(rows), userId)
         ELSE <<Head(rows)>> \o DeleteCartOf(Tail(rows), userId)

IsSuccessEvent(body) == body.event \in {"checkout.completed", "payment.succeeded"}

\* The tables and the response after POST handled the request
PostDone(newOrders, newCart, status) ==
    [orders |-> newOrders, cartItems |-> newCart, status |-> status]

ClearCartOfOrder(rows, cart, orderId, cartError) ==
    IF OrderUserId(rows, orderId) = "none" \/ cartError THEN cart
    ELSE DeleteCartOf(cart, OrderUserId(rows, orderId))

POST(rows, cart, request, webhookSecret, updateError, cartError) ==
    IF ~PassesSignatureCheck(request, webhookSecret) THEN PostDone(rows, cart, 401)
    ELSE IF ~IsSuccessEvent(request.body) \/ request.body.orderId = 0
    THEN PostDone(rows, cart, 200)
    ELSE IF updateError THEN PostDone(rows, cart, 500)
    ELSE PostDone(UpdateOrderPaid(rows, request.body.orderId, request.body.checkoutId),
                  ClearCartOfOrder(rows, cart, request.body.orderId, cartError),
                  200)

PendingOrder(id, userId, isGuest) ==
    [id |-> id, user_id |-> userId, status |-> "pending",
     payment_status |-> "awaiting_payment", payment_reference |-> "null",
     is_guest_order |-> isGuest]

\* Two orders wait for their payment; the users still have rows in cart_items
InitWebhook ==
    /\ orders = <<PendingOrder(1, "user-123", FALSE), PendingOrder(2, "null", TRUE)>>
    /\ orderItems = <<>>
    /\ cartRows \in
          {<<CartItemsRow(1, "user-123", [product_id |-> "prod-1", size |-> "M", color |-> "Black"], 1),
             CartItemsRow(2, "user-555", [product_id |-> "prod-2", size |-> "M", color |-> "Black"], 1)>>,
           <<CartItemsRow(2, "user-555", [product_id |-> "prod-2", size |-> "M", color |-> "Black"], 1)>>}
    /\ guestCart = <<>>
    /\ form = NoForm
    /\ checkoutRuns = <<>>
    /\ orderData = NoResult
    /\ ran = "none"
    /\ clientResult = NoResult
    /\ dbValidation = NoResult
    /\ businessValidation = NoResult
    /\ orderResult = NoResult
    /\ remoteCalls = <<>>
    /\ \E secret \in WebhookSecrets :
          env = [sessionUser |-> NoUser, fault |-> NoFault, webhookSecret |-> secret]
    /\ InitLogger
    /\ InitNoApply

Posted(request, done) ==
    /\ orders' = done.orders
    /\ cartRows' = done.cartItems
    /\ argument' = request
    /\ returned' = Returns(done.status)
    /\ UNCHANGED <<form, orderItems, guestCart, checkoutRuns>>
    /\ UNCHANGED <<orderData, ran, clientResult, dbValidation, businessValidation,
                   orderResult, remoteCalls, env>>
    /\ UNCHANGED auditVars

\* Anyone who knows the URL can send a request
ReceiveWebhook ==
    \E body \in WebhookBodies, updateError \in BOOLEAN, cartError \in BOOLEAN :
        \E signature \in SignatureHeaders(body) :
            Posted([fn |-> "POST", body |-> body, signature |-> signature],
                   POST(orders, cartRows, [body |-> body, signature |-> signature],
                        env.webhookSecret, updateError, cartError))

NextWebhook == ReceiveWebhook

SpecWebhook == InitWebhook /\ [][NextWebhook]_vars

(***************************************************************************)
(* Claims about the webhook, checked under SpecWebhook                     *)
(***************************************************************************)
\* The signature of the request was verified against the configured secret
SignatureVerified(request, webhookSecret) ==
    /\ webhookSecret # "undefined"
    /\ Includes(request.signature, Hmac(webhookSecret, request.body))

OrdersChangedOnly(orderId) ==
    \A i \in 1..Len(orders) : orders'[i] # orders[i] => orders[i].id = orderId

\* C30: with a webhook secret configured, a request changes an order or a
\* cart only when it is a checkout.completed or payment.succeeded event whose
\* signature was verified against the secret, and then only the order it
\* names; a request with a missing or invalid signature, or with another
\* event type, leaves every order and cart unchanged.
C30_OnlyAuthenticatedSuccess ==
    [][(env.webhookSecret # "undefined" /\ (orders' # orders \/ cartRows' # cartRows))
          => /\ IsSuccessEvent(argument'.body)
             /\ SignatureVerified(argument', env.webhookSecret)
             /\ OrdersChangedOnly(argument'.body.orderId)]_vars

\* What the handler does guarantee: orders and carts change only on a success
\* event that passes the check of lines 19 to 29, and only the order named
\* becomes paid / processing
WebhookEffect ==
    [][(orders' # orders \/ cartRows' # cartRows)
          => /\ IsSuccessEvent(argument'.body)
             /\ PassesSignatureCheck(argument', env.webhookSecret)
             /\ returned'.value = 200
             /\ OrdersChangedOnly(argument'.body.orderId)
             /\ \A i \in 1..Len(orders) :
                   orders'[i] # orders[i] =>
                       /\ orders'[i].payment_status = "paid"
                       /\ orders'[i].status = "processing"]_vars

====
